---- MODULE Spec2Model ----
(***************************************************************************)
(* markitdown-node: format detection, backend dispatch, archive expansion  *)
(* and Markdown serialization, modelled from src/src/converter.ts,         *)
(* src/src/backends/*.ts and src/src/exporters/markdown.ts.                 *)
(*                                                                         *)
(* Strings and buffers are sequences of tokens.  Bytes that the code       *)
(* inspects are single-character tokens; text the code only emits (error   *)
(* messages, fixed labels) may be one multi-character token.  A raw byte   *)
(* that has no printable form is a token of RawBytes and counts as one     *)
(* character.                                                              *)
(***************************************************************************)
EXTENDS Integers, Sequences, FiniteSets, TLC

VARIABLES
    allowedFormats,    \* MarkItDown.allowedFormats
    backends,          \* MarkItDown.backends: format -> backend instance
    unzipperInstalled, \* whether import('unzipper') resolves
    setCount,          \* number of setBackend calls made so far
    stack,             \* per top-level call: the chain of suspended convert frames
    result,            \* per top-level call: the ConversionResult it resolved to
    tmpfs,             \* /tmp/temp-<ms>.pptx files: timestamp -> content
    now,               \* Date.now()
    log,               \* history of the steps taken, in order
    sniffIn,           \* input of one detectFormat application
    sniffOut,          \* its result
    exportIn,          \* the document and options handed to the Markdown exporter
    exporter,          \* the MarkdownExporter instance: its options
    exported,          \* the strings its export calls returned, in order
    wrapper            \* the convenience function that made the call, and what it returned

vars == <<allowedFormats, backends, unzipperInstalled, setCount, stack, result,
          tmpfs, now, log, sniffIn, sniffOut, exportIn, exporter, exported, wrapper>>

(***************************************************************************)
(* String primitives (JavaScript String / Buffer operations).              *)
(***************************************************************************)
RawBytes == {"x03", "x04", "x89", "xFF", "xD8"}

Whitespace == {" ", "\n", "\t", "\r"}

Digits == {"0", "1", "2", "3", "4", "5", "6", "7", "8", "9"}

Min(a, b) == IF a < b THEN a ELSE b

Max(a, b) == IF a > b THEN a ELSE b

\* the backquote character, which a string literal cannot hold
BQ == "BACKQUOTE"

CharLen(tok) == IF tok \in RawBytes \cup {BQ} THEN 1 ELSE Len(tok)

RECURSIVE StrLen(_)
StrLen(s) == IF s = <<>> THEN 0 ELSE CharLen(Head(s)) + StrLen(Tail(s))

\* s.slice(from) / buffer.toString('utf-8', 0, n), positions counted from 0
SliceFrom(s, from) == SubSeq(s, from + 1, Len(s))

SliceTo(s, n) == SubSeq(s, 1, Min(n, Len(s)))

StartsWith(s, p) == Len(s) >= Len(p) /\ SubSeq(s, 1, Len(p)) = p

StartsWithAt(s, i, p) == i + Len(p) - 1 <= Len(s) /\ SubSeq(s, i, i + Len(p) - 1) = p

Includes(s, p) == \E i \in 1..(Len(s) - Len(p) + 1) : SubSeq(s, i, i + Len(p) - 1) = p

TrimStart(s) ==
    LET inked == {i \in 1..Len(s) : s[i] \notin Whitespace}
    IN  IF inked = {} THEN <<>>
        ELSE SubSeq(s, CHOOSE i \in inked : \A j \in inked : i <= j, Len(s))

TrimEnd(s) ==
    LET inked == {i \in 1..Len(s) : s[i] \notin Whitespace}
    IN  IF inked = {} THEN <<>>
        ELSE SubSeq(s, 1, CHOOSE i \in inked : \A j \in inked : i >= j)

Trim(s) == TrimEnd(TrimStart(s))

UpperChars == <<"A", "B", "C", "D", "E", "F", "G", "H", "I", "J", "K", "L", "M",
                "N", "O", "P", "Q", "R", "S", "T", "U", "V", "W", "X", "Y", "Z">>

LowerChars == <<"a", "b", "c", "d", "e", "f", "g", "h", "i", "j", "k", "l", "m",
                "n", "o", "p", "q", "r", "s", "t", "u", "v", "w", "x", "y", "z">>

LowerChar(c) ==
    IF \E i \in 1..26 : UpperChars[i] = c
    THEN LowerChars[CHOOSE i \in 1..26 : UpperChars[i] = c]
    ELSE c

ToLowerCase(s) == [i \in 1..Len(s) |-> LowerChar(s[i])]

\* the characters of s as one string value (used as an object key)
RECURSIVE Str(_)
Str(s) == IF s = <<>> THEN "" ELSE Head(s) \o Str(Tail(s))

\* s.split(sep) for a one-character separator
Split(s, sep) ==
    LET cuts == {i \in 1..Len(s) : s[i] = sep}
        \* the k-th separator's position; 0 before the first, Len(s) + 1 after the last
        Cut(k) == IF k = 0 THEN 0
                  ELSE IF k > Cardinality(cuts) THEN Len(s) + 1
                  ELSE CHOOSE i \in cuts : Cardinality({j \in cuts : j < i}) = k - 1
    IN  [k \in 1..(Cardinality(cuts) + 1) |-> SubSeq(s, Cut(k - 1) + 1, Cut(k) - 1)]

\* array.filter(pred) for the predicates the code uses
RECURSIVE FilterNonBlank(_)
FilterNonBlank(ls) ==
    IF ls = <<>> THEN <<>>
    ELSE IF Trim(Head(ls)) # <<>> THEN <<Head(ls)>> \o FilterNonBlank(Tail(ls))
    ELSE FilterNonBlank(Tail(ls))

\* (line.match(/,/g) || []).length
CountChar(s, c) == Cardinality({i \in 1..Len(s) : s[i] = c})

Abs(n) == IF n < 0 THEN 0 - n ELSE n

LastIndexOf(s, c) ==
    IF \E i \in 1..Len(s) : s[i] = c
    THEN CHOOSE i \in 1..Len(s) : s[i] = c /\ \A j \in (i + 1)..Len(s) : s[j] # c
    ELSE 0

\* path.extname(p): from the last '.' of the last path segment to its end; empty
\* when there is no '.' or the only '.' is the segment's first character
Basename(p) == SubSeq(p, LastIndexOf(p, "/") + 1, Len(p))

Extname(p) ==
    LET b == Basename(p)
        k == LastIndexOf(b, ".")
    IN  IF k <= 1 THEN <<>>
        ELSE IF b = <<".", ".">> THEN <<>>
        ELSE SubSeq(b, k, Len(b))

(***************************************************************************)
(* Formats and the extension table.                                        *)
(***************************************************************************)
InputFormat ==
    {"pdf", "docx", "pptx", "xlsx", "html", "vtt", "srt", "image", "csv", "json",
     "text", "xml", "rss", "atom", "zip", "youtube", "bing_serp", "ipynb"}

\* the value of "no format" (null)
NoFormat == "null"

\* the keys of the mapping object literal and their values
ExtensionTable ==
    [pdf |-> "pdf", docx |-> "docx", pptx |-> "pptx", xlsx |-> "xlsx",
     html |-> "html", htm |-> "html", vtt |-> "vtt", srt |-> "srt",
     png |-> "image", jpg |-> "image", jpeg |-> "image", tiff |-> "image",
     tif |-> "image", csv |-> "csv", json |-> "json", txt |-> "text",
     xml |-> "xml", rss |-> "rss", atom |-> "atom", zip |-> "zip",
     ipynb |-> "ipynb"]

\* mapping[ext] also finds what the object literal inherits: these lower-case
\* names are properties of Object.prototype, and their values are truthy
\* the lower-case keys the mapping object inherits from Object.prototype, with the
\* text their value is rendered as
Inherited ==
    [k \in {"constructor", "__proto__"} |->
        IF k = "constructor" THEN "function Object() { [native code] }"
        ELSE "[object Object]"]

\* mapping[ext] || null
extensionToFormat(ext) ==
    LET key == Str(ext)
    IN  IF key \in DOMAIN ExtensionTable THEN ExtensionTable[key]
        ELSE IF key \in DOMAIN Inherited THEN Inherited[key]
        ELSE NoFormat

\* path.extname(name).toLowerCase().slice(1)
ExtOf(name) == SliceFrom(ToLowerCase(Extname(name)), 1)

(***************************************************************************)
(* JSON.parse, for the JSON the model's inputs use: objects, arrays,       *)
(* strings without escapes, unsigned integers, true/false/null.            *)
(***************************************************************************)
JFail == [ok |-> FALSE, val |-> [t |-> "none"], pos |-> 0]

JOk(v, p) == [ok |-> TRUE, val |-> v, pos |-> p]

RECURSIVE SkipWs(_, _)
SkipWs(s, i) == IF i <= Len(s) /\ s[i] \in Whitespace THEN SkipWs(s, i + 1) ELSE i

RECURSIVE DigitsEnd(_, _)
DigitsEnd(s, i) == IF i <= Len(s) /\ s[i] \in Digits THEN DigitsEnd(s, i + 1) ELSE i

RECURSIVE QuoteEnd(_, _)
QuoteEnd(s, i) ==
    IF i > Len(s) THEN 0 ELSE IF s[i] = "\"" THEN i ELSE QuoteEnd(s, i + 1)

JLiterals == {<<"t", "r", "u", "e">>, <<"f", "a", "l", "s", "e">>, <<"n", "u", "l", "l">>}

RECURSIVE ParseValue(_, _)
RECURSIVE ParseMembers(_, _, _)
RECURSIVE ParseElements(_, _, _)

ParseString(s, i) ==
    LET k == QuoteEnd(s, i + 1)
    IN  IF k = 0 THEN JFail
        ELSE JOk([t |-> "str", v |-> SubSeq(s, i + 1, k - 1)], k + 1)

ParseValue(s, i0) ==
    LET i == SkipWs(s, i0)
    IN  IF i > Len(s) THEN JFail
        ELSE IF s[i] = "{" THEN
            LET j == SkipWs(s, i + 1)
            IN  IF j <= Len(s) /\ s[j] = "}" THEN JOk([t |-> "obj", v |-> <<>>], j + 1)
                ELSE ParseMembers(s, j, <<>>)
        ELSE IF s[i] = "[" THEN
            LET j == SkipWs(s, i + 1)
            IN  IF j <= Len(s) /\ s[j] = "]" THEN JOk([t |-> "arr", v |-> <<>>], j + 1)
                ELSE ParseElements(s, j, <<>>)
        ELSE IF s[i] = "\"" THEN ParseString(s, i)
        ELSE IF s[i] \in Digits THEN
            LET e == DigitsEnd(s, i)
            IN  JOk([t |-> "num", v |-> SubSeq(s, i, e - 1)], e)
        ELSE IF \E l \in JLiterals : StartsWithAt(s, i, l) THEN
            LET l == CHOOSE l \in JLiterals : StartsWithAt(s, i, l)
            IN  JOk([t |-> "lit", v |-> l], i + Len(l))
        ELSE JFail

\* members of an object, from the first key at position i; acc: <<key, value>> pairs
ParseMembers(s, i, acc) ==
    IF i > Len(s) \/ s[i] # "\"" THEN JFail
    ELSE
        LET k == ParseString(s, i)
        IN  IF ~k.ok THEN JFail
            ELSE
                LET c == SkipWs(s, k.pos)
                IN  IF c > Len(s) \/ s[c] # ":" THEN JFail
                    ELSE
                        LET v == ParseValue(s, c + 1)
                        IN  IF ~v.ok THEN JFail
                            ELSE
                                LET e    == SkipWs(s, v.pos)
                                    acc2 == Append(acc, <<k.val.v, v.val>>)
                                IN  IF e > Len(s) THEN JFail
                                    ELSE IF s[e] = "}"
                                    THEN JOk([t |-> "obj", v |-> acc2], e + 1)
                                    ELSE IF s[e] = ","
                                    THEN ParseMembers(s, SkipWs(s, e + 1), acc2)
                                    ELSE JFail

ParseElements(s, i, acc) ==
    LET v == ParseValue(s, i)
    IN  IF ~v.ok THEN JFail
        ELSE
            LET e    == SkipWs(s, v.pos)
                acc2 == Append(acc, v.val)
            IN  IF e > Len(s) THEN JFail
                ELSE IF s[e] = "]" THEN JOk([t |-> "arr", v |-> acc2], e + 1)
                ELSE IF s[e] = "," THEN ParseElements(s, SkipWs(s, e + 1), acc2)
                ELSE JFail

\* JSON.parse(text): ok = FALSE stands for the SyntaxError it throws
JSONParse(text) ==
    LET r == ParseValue(text, 1)
    IN  IF r.ok /\ SkipWs(text, r.pos) > Len(text) THEN r ELSE JFail

\* data[key] of a parsed value: the last member with that key, or undefined
JHas(val, key) == val.t = "obj" /\ \E i \in 1..Len(val.v) : val.v[i][1] = key

JGet(val, key) ==
    LET i == CHOOSE i \in 1..Len(val.v) :
                 val.v[i][1] = key /\ \A j \in (i + 1)..Len(val.v) : val.v[j][1] # key
    IN  val.v[i][2]

\* JavaScript truthiness of a parsed value
JTruthy(val) ==
    CASE val.t = "str" -> val.v # <<>>
      [] val.t = "num" -> \E i \in 1..Len(val.v) : val.v[i] # "0"
      [] val.t = "lit" -> val.v = <<"t", "r", "u", "e">>
      [] OTHER -> TRUE

(***************************************************************************)
(* Sources and the file system.  A source is a Buffer or a path string; a  *)
(* filename of <<>> stands for an absent (or empty) filename argument.     *)
(***************************************************************************)
Buf(bytes) == [kind |-> "buffer", data |-> bytes]

Path(p) == [kind |-> "path", data |-> p]

\* literal byte strings
PK34 == <<"P", "K", "x03", "x04">>

Content ==
    [
     PDF |-> <<"%", "P", "D", "F", "-", "1">>,
     PDFBAD |-> <<"%", "P", "D", "F", "-", "?">>,
     DOCX |-> PK34 \o <<"w", "o", "r", "d", "/">>,
     DOCXBAD |-> PK34 \o <<"w", "o", "r", "d", "/", "?">>,
     PPTX1 |-> PK34 \o <<"p", "p", "t", "/", "1">>,
     PPTX2 |-> PK34 \o <<"p", "p", "t", "/", "2">>,
     PPTXBAD |-> PK34 \o <<"p", "p", "t", "/", "?">>,
     XLSX |-> PK34 \o <<"x", "l", "/">>,
     XLSXRAGGED |-> PK34 \o <<"x", "l", "/", "r">>,
     ZIP2 |-> PK34 \o <<"2">>,
     ZIPBAD |-> PK34 \o <<"?">>,
     ZIPUNREAD |-> PK34 \o <<"u">>,
     ZIPNEST |-> PK34 \o <<"n">>,
     ZIPDIR |-> PK34 \o <<"d">>,
     HTML |-> <<"<", "h", "t", "m", "l", ">", "<", "p", ">", "h", "i">>,
     HTMLTABLE |-> <<"<", "h", "t", "m", "l", ">", "<", "t", "a", "b", "l", "e", ">">>,
     RSS |-> <<"<", "?", "x", "m", "l", ">", "<", "r", "s", "s", ">">>,
     XMLDOC |-> <<"<", "a", "/", ">">>,
     VTT |-> <<"W", "E", "B", "V", "T", "T", "\n">>,
     SRT |-> <<"1", "\n", "0", "0", ":", "0", "1", " ", "-", "-", ">", " ", "0", "0", ":",
               "0", "2", "\n", "h", "i">>,
     JSON |-> <<"{", "\"", "a", "\"", ":", "1", "}">>,
     JSONBAD |-> <<"{", "a", "}">>,
     IPYNB |-> <<"{", "\"", "c", "e", "l", "l", "s", "\"", ":", "[", "]", "}">>,
     CSV |-> <<"a", ",", "b", "\n", "1", ",", "2">>,
     CSVRAGGED |-> <<"a", ",", "b", "\n", "1", ",", "2", ",", "3">>,
     TEXT |-> <<"h", "e", "l", "l", "o">>,
     PNG |-> <<"x89", "P", "N", "G">>,
     EMPTY |-> <<>>
    ]

\* paths given as sources
Location ==
    [
     NOEXT |-> <<"/", "d", "/", "p", "a", "g", "e">>,
     PDF |-> <<"/", "d", "/", "a", ".", "p", "d", "f">>,
     MISSING |-> <<"/", "d", "/", "g", "o", "n", "e">>,
     MISSINGTXT |-> <<"/", "d", "/", "g", "o", "n", "e", ".", "t", "x", "t">>,
     PPTX |-> <<"/", "d", "/", "s", ".", "p", "p", "t", "x">>
    ]

\* the files that exist: <<path, content>>
FileSystem ==
    {<<Location.NOEXT, Content.HTML>>, <<Location.PDF, Content.PDF>>,
     <<Location.PPTX, Content.PPTX1>>}

\* an operation's outcome: a value, or a thrown Error with its message
Return(v) == [throws |-> FALSE, value |-> v]

Throw(m) == [throws |-> TRUE, msg |-> m]

ENOENT(p) == <<"ENOENT: no such file or directory, open '">> \o p \o <<"'">>

\* await fs.promises.readFile(path)
readFile(p) ==
    IF \E f \in FileSystem : f[1] = p
    THEN Return((CHOOSE f \in FileSystem : f[1] = p)[2])
    ELSE Throw(ENOENT(p))

\* Buffer.isBuffer(source) ? source : await fs.promises.readFile(source)
BufferOf(source) ==
    IF source.kind = "buffer" THEN Return(source.data) ELSE readFile(source.data)

(***************************************************************************)
(* Format detection (MarkItDown.detectFormat and what it calls).           *)
(***************************************************************************)
HEADER_BYTES == 100

FULL_BYTES == 10000

CSV_LINES == 5

\* /^\d+\s*\n\d{2}:\d{2}/.test(text)
SrtPattern(text) ==
    LET d == DigitsEnd(text, 1)
    IN  /\ d > 1
        /\ \E n \in d..Len(text) :
              /\ \A j \in d..(n - 1) : text[j] \in Whitespace
              /\ text[n] = "\n"
              /\ n + 5 <= Len(text)
              /\ text[n + 1] \in Digits /\ text[n + 2] \in Digits
              /\ text[n + 3] = ":"
              /\ text[n + 4] \in Digits /\ text[n + 5] \in Digits

isValidJSON(text) == JSONParse(text).ok

\* (variant) the blank lines are dropped before the first five are taken
looksLikeCSV_filterFirst(text) ==
    LET lines       == SliceTo(FilterNonBlank(Split(text, "\n")), CSV_LINES)
        commaCounts == [i \in 1..Len(lines) |-> CountChar(lines[i], ",")]
    IN  IF Len(lines) < 2 THEN FALSE
        ELSE /\ commaCounts[1] > 0
             /\ \A i \in 1..Len(commaCounts) : Abs(commaCounts[i] - commaCounts[1]) <= 1

looksLikeCSV(text) ==
    LET lines       == FilterNonBlank(SliceTo(Split(text, "\n"), CSV_LINES))
        commaCounts == [i \in 1..Len(lines) |-> CountChar(lines[i], ",")]
    IN  IF Len(lines) < 2 THEN FALSE
        ELSE /\ commaCounts[1] > 0
             /\ \A i \in 1..Len(commaCounts) : Abs(commaCounts[i] - commaCounts[1]) <= 1

\* the decision on the bytes, once they are read
SniffBytes(buffer) ==
    LET header      == SliceTo(buffer, HEADER_BYTES)
        fullContent == SliceTo(buffer, Min(Len(buffer), FULL_BYTES))
        trimmed     == Trim(header)
    IN  IF StartsWith(header, <<"%", "P", "D", "F", "-">>) THEN "pdf"
        ELSE IF StartsWith(buffer, PK34) THEN
            IF Includes(buffer, <<"w", "o", "r", "d", "/">>) THEN "docx"
            ELSE IF Includes(buffer, <<"p", "p", "t", "/">>) THEN "pptx"
            ELSE IF Includes(buffer, <<"x", "l", "/">>) THEN "xlsx"
            ELSE "zip"
        ELSE IF \/ Includes(header, <<"<", "h", "t", "m", "l">>)
                \/ Includes(header, <<"<", "!", "D", "O", "C", "T", "Y", "P", "E">>) THEN
            IF /\ Includes(fullContent, <<"b", "i", "n", "g", ".", "c", "o", "m">>)
               /\ \/ Includes(fullContent, <<"b", "_", "a", "l", "g", "o">>)
                  \/ Includes(fullContent, <<"b", "_", "s", "e", "a", "r", "c", "h", "b", "o",
                                             "x", "S", "u", "b", "m", "i", "t">>)
            THEN "bing_serp"
            ELSE "html"
        ELSE IF StartsWith(header, <<"W", "E", "B", "V", "T", "T">>) THEN "vtt"
        ELSE IF SrtPattern(header) THEN "srt"
        ELSE IF /\ \/ StartsWith(trimmed, <<"<", "?", "x", "m", "l">>)
                   \/ StartsWith(trimmed, <<"<">>)
                /\ Includes(header, <<"<", "r", "s", "s">>) THEN "rss"
        ELSE IF /\ \/ StartsWith(trimmed, <<"<", "?", "x", "m", "l">>)
                   \/ StartsWith(trimmed, <<"<">>)
                /\ Includes(header, <<"<", "f", "e", "e", "d">>) THEN "atom"
        ELSE IF /\ \/ StartsWith(trimmed, <<"<", "?", "x", "m", "l">>)
                   \/ StartsWith(trimmed, <<"<">>)
                /\ Includes(header, <<"<">>) THEN "xml"
        ELSE IF /\ StartsWith(trimmed, <<"{">>) \/ StartsWith(trimmed, <<"[">>)
                /\ isValidJSON(buffer) THEN
            LET jsonData == JSONParse(buffer).val
            IN  IF /\ JTruthy(jsonData)
                   /\ JHas(jsonData, <<"c", "e", "l", "l", "s">>)
                   /\ JGet(jsonData, <<"c", "e", "l", "l", "s">>).t = "arr"
                THEN "ipynb"
                ELSE "json"
        ELSE IF looksLikeCSV(header) THEN "csv"
        ELSE NoFormat

\* (variant) 'xl/' is looked for before 'word/'
detectFormatFromContent_xlFirst(source) ==
    LET b == BufferOf(source)
    IN  IF b.throws THEN b
        ELSE IF SniffBytes(b.value) = "docx" /\ Includes(b.value, <<"x", "l", "/">>)
        THEN Return("xlsx")
        ELSE Return(SniffBytes(b.value))

\* (variant) the CSV heuristic is tried before the signatures
detectFormatFromContent_csvFirst(source) ==
    LET b == BufferOf(source)
    IN  IF b.throws THEN b
        ELSE IF looksLikeCSV(SliceTo(b.value, HEADER_BYTES)) THEN Return("csv")
        ELSE Return(SniffBytes(b.value))

\* (variant) the result-page markers are looked for in the whole buffer
detectFormatFromContent_wholeBuffer(source) ==
    LET b == BufferOf(source)
    IN  IF b.throws THEN b
        ELSE IF /\ SniffBytes(b.value) = "html"
                /\ Includes(b.value, <<"b", "i", "n", "g", ".", "c", "o", "m">>)
                /\ Includes(b.value, <<"b", "_", "a", "l", "g", "o">>)
        THEN Return("bing_serp")
        ELSE Return(SniffBytes(b.value))

detectFormatFromContent(source) ==
    LET b == BufferOf(source)
    IN  IF b.throws THEN b ELSE Return(SniffBytes(b.value))

\* (variant) the path's extension is looked up before the filename's
detectFormat_pathFirst(source, filename) ==
    LET fromName == IF filename # <<>> THEN extensionToFormat(ExtOf(filename)) ELSE NoFormat
        fromPath == IF source.kind = "path" THEN extensionToFormat(ExtOf(source.data))
                    ELSE NoFormat
    IN  IF fromPath # NoFormat THEN Return(fromPath)
        ELSE IF fromName # NoFormat THEN Return(fromName)
        ELSE detectFormatFromContent(source)

detectFormat(source, filename) ==
    LET fromName == IF filename # <<>> THEN extensionToFormat(ExtOf(filename)) ELSE NoFormat
        fromPath == IF source.kind = "path" THEN extensionToFormat(ExtOf(source.data))
                    ELSE NoFormat
    IN  IF fromName # NoFormat THEN Return(fromName)
        ELSE IF fromPath # NoFormat THEN Return(fromPath)
        ELSE detectFormatFromContent(source)

(***************************************************************************)
(* Document items.  An item is a record that has a field only when the     *)
(* JavaScript object has a defined value for it.                           *)
(***************************************************************************)
Opt(present, fields) == IF present THEN fields ELSE <<>>

Has(item, field) == field \in DOMAIN item

\* item.text || ''
TextOf(item) == IF Has(item, "text") THEN item.text ELSE <<>>

\* AbstractBackend's defaults merged with defaultOptions = {}
BackendDefaults == [extractImages |-> TRUE, extractTables |-> TRUE, extractFormatting |-> TRUE]

RECURSIVE Concat(_)
Concat(seqs) == IF seqs = <<>> THEN <<>> ELSE Head(seqs) \o Concat(Tail(seqs))

RECURSIVE Join(_, _)
Join(parts, sep) ==
    IF parts = <<>> THEN <<>>
    ELSE IF Len(parts) = 1 THEN parts[1]
    ELSE parts[1] \o sep \o Join(Tail(parts), sep)

RECURSIVE MaxLen(_)
MaxLen(rows) == IF rows = <<>> THEN 0 ELSE Max(Len(Head(rows)), MaxLen(Tail(rows)))

\* a decimal number as text
RECURSIVE NumStr(_)
NumStr(n) ==
    LET d == <<"0", "1", "2", "3", "4", "5", "6", "7", "8", "9">>
    IN  IF n < 10 THEN <<d[n + 1]>> ELSE NumStr(n \div 10) \o <<d[(n % 10) + 1]>>

(***************************************************************************)
(* What the parsing libraries return for the bytes of the model's inputs.  *)
(* A DOM element is a record with its tag and what the code reads of it.   *)
(***************************************************************************)
\* the element trees of the model's two HTML texts: a paragraph; and a heading, a
\* ragged table, a section with a regular and an empty table, a list, an image
Dom ==
    LET ElH(n, text)   == [tag |-> "h", level |-> n, text |-> text, marks |-> {}]
        ElP(text, mk)  == [tag |-> "p", text |-> text, marks |-> mk]
        ElList(t, lis) == [tag |-> t, lis |-> lis]
        ElTable(trs)   == [tag |-> "table", trs |-> trs]
        ElImg(src, alt) == [tag |-> "img", src |-> src, alt |-> alt]
        ElDiv(kids)    == [tag |-> "div", kids |-> kids]
        Td(text)       == [tag |-> "td", text |-> text, rowspan |-> 1, colspan |-> 1]
        Th(text)       == [tag |-> "th", text |-> text, rowspan |-> 1, colspan |-> 1]
    IN  [plain  |-> <<ElP(<<"h", "i">>, {})>>,
         tables |->
            <<ElH(1, <<"T">>),
              ElTable(<< <<Th(<<"a">>)>>, <<Td(<<"b">>), Td(<<"c">>)>> >>),
              ElDiv(<<ElTable(<< <<Th(<<"k">>), Th(<<"v">>)>>,
                                 <<Td(<<"1">>), Td(<<"2">>)>> >>),
                      ElTable(<<>>)>>),
              ElList("ol", <<[text |-> <<"x">>, marks |-> {"b"}]>>),
              ElImg(<<"i", ".", "p", "n", "g">>, <<"p", "i", "c">>)>>]

\* new JSDOM(html).window.document.body.children
JSDOM(html) ==
    IF html = Content.HTML THEN Dom.plain
    ELSE IF html = Content.HTMLTABLE THEN Dom.tables
    ELSE <<>>

\* mammoth.convertToHtml({buffer}) followed by new JSDOM(result.value)
Mammoth(buffer) ==
    IF buffer = Content.DOCX THEN Return(Dom.tables)
    ELSE Throw(<<"Can't find end of central directory : is this a zip file ?">>)

\* workbook.xlsx.load(buffer): the sheets, each row as row.values.slice(1)
ExcelLoad(buffer) ==
    IF buffer = Content.XLSX
    THEN Return(<<[name |-> <<"S", "1">>,
                   rows |-> << <<<<"a">>, <<"b">>>>, <<<<"1">>, <<"2">>>> >>]>>)
    ELSE IF buffer = Content.XLSXRAGGED
    THEN Return(<<[name |-> <<"S", "1">>,
                   rows |-> << <<<<"a">>>>, <<<<"1">>, <<"2">>, <<"3">>>> >>],
                  [name |-> <<"S", "2">>, rows |-> <<>>]>>)
    ELSE Throw(<<"Can't find end of central directory : is this a zip file ?">>)

\* pdfToPages(buffer): the text of each page
PdfToPages(buffer) ==
    IF buffer = Content.PDF THEN Return(<<<<"p", "1">>, <<" ">>, <<"p", "3">>>>)
    ELSE Throw(<<"Invalid PDF structure.">>)

\* new PPTXParser(filePath).extractText() on a file with this content: the text
\* lines of each slide
PptxExtract(bytes) ==
    IF bytes = Content.PPTX1 THEN Return(<<<<<<"O", "n", "e">>, <<"x">>>>>>)
    ELSE IF bytes = Content.PPTX2 THEN Return(<<<<<<"T", "w", "o">>>>, <<>>>>)
    ELSE Throw(<<"Failed to parse PPTX">>)

\* the paths of the archive entries
EntryName ==
    [
     TXT |-> <<"a", ".", "t", "x", "t">>,
     BIN |-> <<"b", ".", "b", "i", "n">>,
     JSON |-> <<"c", ".", "j", "s", "o", "n">>,
     CSV |-> <<"t", ".", "c", "s", "v">>,
     ZIP |-> <<"i", "n", ".", "z", "i", "p">>,
     DIR |-> <<"d", "/">>,
     PDF |-> <<"d", "/", "e", ".", "p", "d", "f">>
    ]

\* archives in archives: the outer one holds the middle one and a binary file, the
\* middle one a directory and the inner one, the inner one nothing
Nesting ==
    [OUTER |-> PK34 \o <<"3">>, MIDDLE |-> PK34 \o <<"2", "2">>, INNER |-> PK34 \o <<"1">>]

\* unzipper.Open.buffer(buffer): directory.files, each entry with its type, its path
\* and what entry.buffer() settles to
UnzipOpen(buffer) ==
    LET FileEntry(path, data) == [type |-> "File", path |-> path, data |-> Return(data)]
        BadEntry(path) == [type |-> "File", path |-> path, data |-> Throw(<<"FILE_ENDED">>)]
        DirEntry(path) == [type |-> "Directory", path |-> path, data |-> Return(<<>>)]
    IN
        IF buffer = Content.ZIP2
        THEN Return(<<FileEntry(EntryName.TXT, Content.TEXT),
                      FileEntry(EntryName.BIN, <<"x89", "xFF">>)>>)
        ELSE IF buffer = Content.ZIPUNREAD
        THEN Return(<<BadEntry(EntryName.BIN), FileEntry(EntryName.TXT, Content.TEXT)>>)
        ELSE IF buffer = Content.ZIPNEST
        THEN Return(<<FileEntry(EntryName.ZIP, Content.ZIP2),
                      FileEntry(EntryName.JSON, Content.JSONBAD)>>)
        ELSE IF buffer = Content.ZIPDIR
        THEN Return(<<DirEntry(EntryName.DIR), FileEntry(EntryName.PDF, Content.PDFBAD),
                      FileEntry(EntryName.CSV, Content.CSV)>>)
        ELSE IF buffer = Nesting.OUTER
        THEN Return(<<FileEntry(EntryName.ZIP, Nesting.MIDDLE),
                      FileEntry(EntryName.BIN, <<"x89", "xFF">>)>>)
        ELSE IF buffer = Nesting.MIDDLE
        THEN Return(<<DirEntry(EntryName.DIR), FileEntry(EntryName.ZIP, Nesting.INNER)>>)
        ELSE IF buffer = Nesting.INNER
        THEN Return(<<>>)
        ELSE Throw(<<"FILE_ENDED">>)

\* sharp(buffer).metadata() resolves
SharpReads(buffer) == buffer = Content.PNG

(***************************************************************************)
(* Backends: isValid.                                                      *)
(***************************************************************************)
\* the backend classes the constructor instantiates, by registered format
BackendClass ==
    [html |-> "HTMLBackend", docx |-> "DOCXBackend", xlsx |-> "XLSXBackend",
     pptx |-> "PPTXBackend", vtt |-> "SubtitleBackend", srt |-> "SubtitleBackend",
     pdf |-> "PDFBackend", image |-> "ImageBackend", csv |-> "PlainTextBackend",
     json |-> "PlainTextBackend", text |-> "PlainTextBackend", xml |-> "XMLBackend",
     rss |-> "XMLBackend", atom |-> "XMLBackend", zip |-> "ZIPBackend",
     youtube |-> "YouTubeBackend", bing_serp |-> "BingSerpBackend",
     ipynb |-> "IpynbBackend"]

\* a backend instance: its class, the key it was created for, and (archive backend)
\* whether it holds a parent converter
Instance(class, key, parent) == [class |-> class, key |-> key, parent |-> parent]

\* backends.get(format) === undefined
NoBackend == Instance("undefined", "undefined", FALSE)

\* In each isValid a source that cannot be read gives false (try/catch).
PDFBackend_isValid(source) ==
    LET Test(buffer) == SliceTo(buffer, 5) = <<"%", "P", "D", "F", "-">>
    IN  ~BufferOf(source).throws /\ Test(BufferOf(source).value)

Office_isValid(source) ==
    LET Test(buffer) == Len(buffer) >= 2 /\ buffer[1] = "P" /\ buffer[2] = "K"
    IN  ~BufferOf(source).throws /\ Test(BufferOf(source).value)

ZIPBackend_isValid(source) ==
    LET Test(buffer) == StartsWith(buffer, PK34) 
    IN  ~BufferOf(source).throws /\ Test(BufferOf(source).value)

\* the HTML text of a source: a string that starts with '<' is the markup itself
HTMLSourceText(source) ==
    IF source.kind = "buffer" THEN Return(source.data)
    ELSE IF StartsWith(Trim(source.data), <<"<">>) THEN Return(source.data)
    ELSE readFile(source.data)

HTMLBackend_isValid(source) ==
    LET h == HTMLSourceText(source)
        t == Trim(h.value)
    IN  IF h.throws THEN FALSE
        ELSE \/ Includes(t, <<"<", "h", "t", "m", "l">>)
             \/ Includes(t, <<"<", "b", "o", "d", "y">>)
             \/ Includes(t, <<"<", "d", "i", "v">>)
             \/ Includes(t, <<"<", "h">>)
             \/ Includes(t, <<"<", "p">>)

\* the subtitle text of a source: a string that looks like content is the content
SubtitleSourceText(source) ==
    LET \* source.match(/^\d+$/m): some line consists of digits only
        HasDigitLine(text) ==
            \E i \in 1..Len(Split(text, "\n")) :
                LET l == Split(text, "\n")[i]
                IN  l # <<>> /\ \A j \in 1..Len(l) : l[j] \in Digits
    IN  IF source.kind = "buffer" THEN Return(source.data)
        ELSE IF \/ Includes(source.data, <<"\n">>)
                \/ StartsWith(source.data, <<"W", "E", "B", "V", "T", "T">>)
                \/ HasDigitLine(source.data)
        THEN Return(source.data)
        ELSE readFile(source.data)

SubtitleBackend_isValid(source) ==
    LET c == SubtitleSourceText(source)
        t == Trim(c.value)
    IN  IF c.throws THEN FALSE
        ELSE StartsWith(t, <<"W", "E", "B", "V", "T", "T">>) \/ SrtPattern(t)

ImageBackend_isValid(source) ==
    LET Test(buffer) ==
            \/ StartsWith(buffer, <<"x89", "P", "N", "G">>)
            \/ StartsWith(buffer, <<"xFF", "xD8", "xFF">>)
            \/ SharpReads(buffer)
    IN  ~BufferOf(source).throws /\ Test(BufferOf(source).value)

PlainTextBackend_isValid(source) ==
    LET Test(buffer) == StrLen(buffer) > 0 
    IN  ~BufferOf(source).throws /\ Test(BufferOf(source).value)

XMLBackend_isValid(source) ==
    LET Test(buffer) ==
            \/ StartsWith(Trim(buffer), <<"<", "?", "x", "m", "l">>)
            \/ StartsWith(Trim(buffer), <<"<">>)
    IN  ~BufferOf(source).throws /\ Test(BufferOf(source).value)

YouTubeBackend_isValid(source) ==
    LET Test(buffer) ==
            \/ Includes(buffer, <<"y", "o", "u", "t", "u", "b", "e", ".", "c", "o", "m">>)
            \/ Includes(buffer, <<"y", "t", "I", "n", "i", "t", "i", "a", "l", "D", "a", "t", "a">>)
    IN  ~BufferOf(source).throws /\ Test(BufferOf(source).value)

BingSerpBackend_isValid(source) ==
    LET Test(buffer) ==
            /\ Includes(buffer, <<"b", "i", "n", "g", ".", "c", "o", "m">>)
            /\ \/ Includes(buffer, <<"b", "_", "a", "l", "g", "o">>)
               \/ Includes(buffer, <<"b", "_", "s", "e", "a", "r", "c", "h", "b", "o", "x",
                                     "S", "u", "b", "m", "i", "t">>)
    IN  ~BufferOf(source).throws /\ Test(BufferOf(source).value)

IpynbBackend_isValid(source) ==
    LET Test(buffer) ==
            LET data == JSONParse(buffer)
            IN  /\ data.ok
                /\ data.val.t = "obj"
                /\ JHas(data.val, <<"c", "e", "l", "l", "s">>)
                /\ JGet(data.val, <<"c", "e", "l", "l", "s">>).t = "arr"
                /\ \/ JHas(data.val, <<"n", "b", "f", "o", "r", "m", "a", "t">>)
                   \/ JHas(data.val, <<"m", "e", "t", "a", "d", "a", "t", "a">>)
    IN  ~BufferOf(source).throws /\ Test(BufferOf(source).value)

\* what isValid of a backend supplied through setBackend may do
CustomOutcomes == {Return(TRUE), Return(FALSE), Throw(<<"custom isValid failed">>)}

\* the outcomes of await backend.isValid(source)
isValid(backend, source) ==
    LET c == backend.class
    IN  IF c = "CustomBackend" THEN CustomOutcomes
        ELSE {Return(
            CASE c = "PDFBackend" -> PDFBackend_isValid(source)
              [] c \in {"DOCXBackend", "XLSXBackend", "PPTXBackend"} -> Office_isValid(source)
              [] c = "ZIPBackend" -> ZIPBackend_isValid(source)
              [] c = "HTMLBackend" -> HTMLBackend_isValid(source)
              [] c = "SubtitleBackend" -> SubtitleBackend_isValid(source)
              [] c = "ImageBackend" -> ImageBackend_isValid(source)
              [] c = "PlainTextBackend" -> PlainTextBackend_isValid(source)
              [] c = "XMLBackend" -> XMLBackend_isValid(source)
              [] c = "YouTubeBackend" -> YouTubeBackend_isValid(source)
              [] c = "BingSerpBackend" -> BingSerpBackend_isValid(source)
              [] c = "IpynbBackend" -> IpynbBackend_isValid(source))}

(***************************************************************************)
(* Backends: convert.                                                      *)
(***************************************************************************)
\* filename || fallback
NameOr(filename, fallback) == IF filename # <<>> THEN filename ELSE <<fallback>>

Document(metadata, content) == [metadata |-> metadata, content |-> content]

Paragraph(text) == [type |-> "paragraph", text |-> text]

\* HTMLBackend.extractFormatting
HTML_extractFormatting(el) ==
    IF ~BackendDefaults.extractFormatting \/ el.marks \cap {"b", "i", "u", "s"} = {}
    THEN <<>>
    ELSE [formatting |->
            [bold |-> "b" \in el.marks, italic |-> "i" \in el.marks,
             underline |-> "u" \in el.marks,
             strikethrough |-> el.marks \cap {"s", "del"} # {}]]

\* rows[0]?.length || 0
FirstRowLength(rows) == IF rows = <<>> THEN 0 ELSE Len(rows[1])

\* HTMLBackend.extractTable
HTML_extractTable(el) ==
    LET rows == [i \in 1..Len(el.trs) |->
                    [j \in 1..Len(el.trs[i]) |->
                        [text |-> el.trs[i][j].text,
                         isHeader |-> el.trs[i][j].tag = "th",
                         rowSpan |-> el.trs[i][j].rowspan,
                         colSpan |-> el.trs[i][j].colspan]]]
    IN  [type |-> "table", rows |-> rows, numRows |-> Len(rows),
         numCols |-> FirstRowLength(rows)]

\* HTMLBackend.extractList
HTML_extractList(el) ==
    [type |-> "list",
     children |-> [i \in 1..Len(el.lis) |->
                      [type |-> "list_item", text |-> el.lis[i].text]
                          @@ HTML_extractFormatting(el.lis[i])],
     metadata |-> [ordered |-> el.tag = "ol"]]

\* HTMLBackend.extractImage: absent attributes give undefined fields
HTML_extractImage(el) ==
    [type |-> "image"] @@ Opt(el.src # <<>>, [src |-> el.src])
                       @@ Opt(el.alt # <<>>, [alt |-> el.alt])

\* HTMLBackend.extractElements
RECURSIVE HTML_extractElements(_)
HTML_extractElements(els) ==
    IF els = <<>> THEN <<>>
    ELSE
        LET el == Head(els)
            here ==
                CASE el.tag = "h" ->
                        <<[type |-> "heading", text |-> el.text, level |-> el.level]
                              @@ HTML_extractFormatting(el)>>
                  [] el.tag = "p" ->
                        <<Paragraph(el.text) @@ HTML_extractFormatting(el)>>
                  [] el.tag \in {"ul", "ol"} -> <<HTML_extractList(el)>>
                  [] el.tag = "table" ->
                        IF BackendDefaults.extractTables THEN <<HTML_extractTable(el)>>
                        ELSE <<>>
                  [] el.tag = "img" ->
                        IF BackendDefaults.extractImages THEN <<HTML_extractImage(el)>>
                        ELSE <<>>
                  [] el.tag = "pre" -> <<[type |-> "code", text |-> el.text]>>
                  [] el.tag = "div" ->
                        LET childItems == HTML_extractElements(el.kids)
                        IN  IF childItems # <<>>
                            THEN <<[type |-> "section", children |-> childItems]>>
                            ELSE <<>>
                  [] OTHER -> <<>>
        IN  here \o HTML_extractElements(Tail(els))

HTMLBackend_convert(source, filename) ==
    LET h == HTMLSourceText(source)
    IN  IF h.throws THEN h
        ELSE Return(Document(
                [filename |-> NameOr(filename, "document.html"), format |-> "html",
                 title |-> NameOr(filename, "Untitled")],
                HTML_extractElements(JSDOM(h.value))))

\* DOCXBackend.extractTable
DOCX_extractTable(el) ==
    LET rows == [i \in 1..Len(el.trs) |->
                    [j \in 1..Len(el.trs[i]) |->
                        [text |-> el.trs[i][j].text,
                         isHeader |-> el.trs[i][j].tag = "th"]]]
    IN  [type |-> "table", rows |-> rows, numRows |-> Len(rows),
         numCols |-> FirstRowLength(rows)]

\* DOCXBackend.extractFormatting
DOCX_extractFormatting(el) ==
    IF ~BackendDefaults.extractFormatting THEN <<>>
    ELSE [formatting |-> [bold |-> "b" \in el.marks, italic |-> "i" \in el.marks,
                          underline |-> "u" \in el.marks]]

\* DOCXBackend.extractElements: the children of the body only
RECURSIVE DOCX_extractElements(_)
DOCX_extractElements(els) ==
    IF els = <<>> THEN <<>>
    ELSE
        LET el == Head(els)
            here ==
                CASE el.tag = "h" ->
                        <<[type |-> "heading", text |-> el.text, level |-> el.level]>>
                  [] el.tag = "p" ->
                        IF el.text # <<>>
                        THEN <<Paragraph(el.text) @@ DOCX_extractFormatting(el)>>
                        ELSE <<>>
                  [] el.tag \in {"ul", "ol"} ->
                        <<[type |-> "list",
                           children |-> [i \in 1..Len(el.lis) |->
                                            [type |-> "list_item", text |-> el.lis[i].text]],
                           metadata |-> [ordered |-> el.tag = "ol"]]>>
                  [] el.tag = "table" /\ BackendDefaults.extractTables ->
                        <<DOCX_extractTable(el)>>
                  [] el.tag = "img" /\ BackendDefaults.extractImages ->
                        <<[type |-> "image",
                           metadata |-> Opt(el.src # <<>>, [src |-> el.src])
                                            @@ Opt(el.alt # <<>>, [alt |-> el.alt])]>>
                  [] OTHER -> <<>>
        IN  here \o DOCX_extractElements(Tail(els))

\* DOCXBackend.extractTitle
DOCX_extractTitle(content) ==
    IF \E i \in 1..Len(content) : content[i].type = "heading" /\ content[i].level = 1
    THEN LET i == CHOOSE i \in 1..Len(content) :
                      /\ content[i].type = "heading" /\ content[i].level = 1
                      /\ \A j \in 1..(i - 1) :
                            ~(content[j].type = "heading" /\ content[j].level = 1)
         IN  IF content[i].text # <<>> THEN content[i].text ELSE <<"Untitled">>
    ELSE <<"Untitled">>

DOCXBackend_convert(source, filename) ==
    LET b == BufferOf(source)
        m == Mammoth(b.value)
    IN  IF b.throws THEN b
        ELSE IF m.throws THEN m
        ELSE LET content == DOCX_extractElements(m.value)
             IN  Return(Document(
                    [filename |-> NameOr(filename, "document.docx"), format |-> "docx",
                     title |-> DOCX_extractTitle(content)],
                    content))

\* XLSXBackend.convert: one heading per sheet, one table per sheet that has rows
RECURSIVE XLSX_sheets(_)
XLSX_sheets(sheets) ==
    IF sheets = <<>> THEN <<>>
    ELSE
        LET ws   == Head(sheets)
            rows == [i \in 1..Len(ws.rows) |->
                        [j \in 1..Len(ws.rows[i]) |->
                            [text |-> ws.rows[i][j], isHeader |-> i = 1]]]
        IN  <<[type |-> "heading", text |-> ws.name, level |-> 1]>>
            \o (IF Len(rows) > 0
                THEN <<[type |-> "table", rows |-> rows, numRows |-> Len(rows),
                        numCols |-> FirstRowLength(rows)]>>
                ELSE <<>>)
            \o XLSX_sheets(Tail(sheets))

XLSXBackend_convert(source, filename) ==
    LET b == BufferOf(source)
        w == ExcelLoad(b.value)
    IN  IF b.throws THEN b
        ELSE IF w.throws THEN w
        ELSE Return(Document(
                [filename |-> NameOr(filename, "workbook.xlsx"), format |-> "xlsx",
                 title |-> NameOr(filename, "Untitled Workbook")],
                XLSX_sheets(w.value)))

\* PDFBackend.convert: one paragraph per page that has text
RECURSIVE PDF_pages(_, _)
PDF_pages(pages, n) ==
    IF pages = <<>> THEN <<>>
    ELSE (IF Trim(Head(pages)) # <<>>
          THEN <<[type |-> "paragraph", text |-> Trim(Head(pages)),
                  metadata |-> [page |-> n]]>>
          ELSE <<>>)
         \o PDF_pages(Tail(pages), n + 1)

PDFBackend_convert(source, filename) ==
    LET b == BufferOf(source)
        g == PdfToPages(b.value)
    IN  IF b.throws THEN b
        ELSE IF g.throws THEN g
        ELSE Return(Document(
                [filename |-> NameOr(filename, "document.pdf"), format |-> "pdf",
                 title |-> NameOr(filename, "Untitled PDF"), pageCount |-> Len(g.value)],
                PDF_pages(g.value, 1)))

\* PlainTextBackend.getExtension
PlainText_getExtension(filename) ==
    LET parts == Split(filename, ".")
    IN  IF Len(parts) > 1 THEN <<".">> \o ToLowerCase(parts[Len(parts)]) ELSE <<>>

\* text.split(/\n\n+/): runs of two or more newlines separate the parts
RECURSIVE SplitBlankAcc(_, _, _)
SplitBlankAcc(s, cur, acc) ==
    IF s = <<>> THEN Append(acc, cur)
    ELSE IF Len(s) >= 2 /\ s[1] = "\n" /\ s[2] = "\n"
    THEN LET rest == SliceFrom(s, 2)
             k    == IF \E i \in 1..Len(rest) : rest[i] # "\n"
                     THEN (CHOOSE i \in 1..Len(rest) :
                              rest[i] # "\n" /\ \A j \in 1..(i - 1) : rest[j] = "\n") - 1
                     ELSE Len(rest)
         IN  SplitBlankAcc(SliceFrom(rest, k), <<>>, Append(acc, cur))
    ELSE SplitBlankAcc(Tail(s), Append(cur, Head(s)), acc)

SplitBlank(s) == SplitBlankAcc(s, <<>>, <<>>)

\* PlainTextBackend.parsePlainText
PlainText_parsePlainText(text) ==
    LET paragraphs == FilterNonBlank(SplitBlank(text))
    IN  [i \in 1..Len(paragraphs) |-> Paragraph(Trim(paragraphs[i]))]

\* the cells of one CSV line: commas outside double quotes separate, quotes are dropped
RECURSIVE CSV_cells(_, _, _, _)
CSV_cells(line, currentCell, inQuotes, cells) ==
    IF line = <<>> THEN Append(cells, Trim(currentCell))
    ELSE IF Head(line) = "\"" THEN CSV_cells(Tail(line), currentCell, ~inQuotes, cells)
    ELSE IF Head(line) = "," /\ ~inQuotes
    THEN CSV_cells(Tail(line), <<>>, inQuotes, Append(cells, Trim(currentCell)))
    ELSE CSV_cells(Tail(line), Append(currentCell, Head(line)), inQuotes, cells)

\* line.split(/\r?\n/): a carriage return before the newline belongs to the separator
StripCR(line) ==
    IF line # <<>> /\ line[Len(line)] = "\r" THEN SubSeq(line, 1, Len(line) - 1) ELSE line

\* PlainTextBackend.parseCSV
PlainText_parseCSV(text) ==
    LET raw   == Split(text, "\n")
        split == [i \in 1..Len(raw) |-> IF i < Len(raw) THEN StripCR(raw[i]) ELSE raw[i]]
        lines == FilterNonBlank(split)
        rows  == [i \in 1..Len(lines) |-> CSV_cells(lines[i], <<>>, FALSE, <<>>)]
        numCols == MaxLen(rows)
        tableRows == [i \in 1..Len(rows) |->
                        [j \in 1..numCols |->
                            [text |-> IF j <= Len(rows[i]) THEN rows[i][j] ELSE <<>>,
                             isHeader |-> i = 1]]]
    IN  IF Len(lines) = 0 THEN <<>>
        ELSE <<[type |-> "table", rows |-> tableRows, numRows |-> Len(tableRows),
                numCols |-> numCols]>>

\* JSON.stringify(data, null, 2)
Spaces(n) == [i \in 1..n |-> " "]

RECURSIVE Stringify(_, _)
Stringify(val, indent) ==
    CASE val.t = "str" -> <<"\"">> \o val.v \o <<"\"">>
      [] val.t \in {"num", "lit"} -> val.v
      [] val.t = "arr" ->
            IF val.v = <<>> THEN <<"[", "]">>
            ELSE <<"[", "\n">>
                 \o Join([i \in 1..Len(val.v) |->
                            Spaces(indent + 2) \o Stringify(val.v[i], indent + 2)],
                         <<",", "\n">>)
                 \o <<"\n">> \o Spaces(indent) \o <<"]">>
      [] val.t = "obj" ->
            IF val.v = <<>> THEN <<"{", "}">>
            ELSE <<"{", "\n">>
                 \o Join([i \in 1..Len(val.v) |->
                            Spaces(indent + 2) \o <<"\"">> \o val.v[i][1] \o <<"\"", ":", " ">>
                            \o Stringify(val.v[i][2], indent + 2)],
                         <<",", "\n">>)
                 \o <<"\n">> \o Spaces(indent) \o <<"}">>

\* PlainTextBackend.parseJSONStructure
RECURSIVE PlainText_parseJSONStructure(_)
PlainText_parseJSONStructure(data) ==
    LET JSON_textFields ==
            <<<<"t", "i", "t", "l", "e">>, <<"n", "a", "m", "e">>,
              <<"d", "e", "s", "c", "r", "i", "p", "t", "i", "o", "n">>,
              <<"t", "e", "x", "t">>, <<"c", "o", "n", "t", "e", "n", "t">>,
              <<"b", "o", "d", "y">>>>
    IN
    CASE data.t = "arr" ->
            Concat([i \in 1..Len(data.v) |->
                      IF data.v[i].t \in {"obj", "arr"}
                      THEN PlainText_parseJSONStructure(data.v[i]) ELSE <<>>])
      [] data.t = "obj" ->
            Concat([k \in 1..Len(JSON_textFields) |->
                      IF /\ JHas(data, JSON_textFields[k])
                         /\ JGet(data, JSON_textFields[k]).t = "str"
                         /\ JGet(data, JSON_textFields[k]).v # <<>>
                      THEN <<Paragraph(<<"*", "*">> \o JSON_textFields[k] \o <<"*", "*", ":", " ">>
                                       \o JGet(data, JSON_textFields[k]).v)>>
                      ELSE <<>>])
      [] OTHER -> <<>>

\* PlainTextBackend.parseJSON: text that does not parse becomes one paragraph
PlainText_parseJSON(text) ==
    LET data == JSONParse(text)
    IN  IF data.ok
        THEN <<[type |-> "code", text |-> Stringify(data.val, 0),
                metadata |-> [language |-> <<"json">>]]>>
             \o PlainText_parseJSONStructure(data.val)
        ELSE <<Paragraph(text)>>

PlainTextBackend_convert(source, filename) ==
    LET b    == BufferOf(source)
        text == b.value
        ext  == IF filename # <<>> THEN PlainText_getExtension(filename) ELSE <<>>
        fmt  == IF ext = <<".", "c", "s", "v">> THEN "csv"
                ELSE IF ext = <<".", "j", "s", "o", "n">> THEN "json"
                ELSE "text"
        content == IF fmt = "csv" THEN PlainText_parseCSV(text)
                   ELSE IF fmt = "json" THEN PlainText_parseJSON(text)
                   ELSE PlainText_parsePlainText(text)
    IN  IF b.throws THEN b
        ELSE Return(Document(
                [filename |-> NameOr(filename, "document.txt"), format |-> fmt,
                 title |-> NameOr(filename, "Untitled Document")],
                content))

\* SubtitleBackend.convert; the cue parsing is reduced to one paragraph per input
SubtitleBackend_convert(source, filename) ==
    LET c   == SubtitleSourceText(source)
        fmt == IF StartsWith(c.value, <<"W", "E", "B", "V", "T", "T">>) THEN "vtt" ELSE "srt"
    IN  IF c.throws THEN c
        ELSE Return(Document(
                [filename |-> NameOr(filename, "subtitle." \o fmt), format |-> fmt,
                 title |-> NameOr(filename, "Subtitle File")],
                IF Includes(c.value, <<"-", "-", ">">>) THEN <<Paragraph(<<"cue">>)>> ELSE <<>>))

\* XMLBackend.convert; the feed parsing is reduced to one paragraph of the markup
XMLBackend_convert(source, filename) ==
    LET b   == BufferOf(source)
        fmt == IF Includes(b.value, <<"<", "r", "s", "s">>) THEN "rss"
               ELSE IF Includes(b.value, <<"<", "f", "e", "e", "d">>) THEN "atom"
               ELSE "xml"
    IN  IF b.throws THEN b
        ELSE Return(Document(
                [filename |-> NameOr(filename, "document.xml"), format |-> fmt,
                 title |-> NameOr(filename, "Untitled XML")],
                <<Paragraph(b.value)>>))

\* ImageBackend.convert; OCR finds no text in the model's images
ImageBackend_convert(source, filename) ==
    LET b == BufferOf(source)
    IN  IF b.throws THEN b
        ELSE IF ~SharpReads(b.value)
        THEN Throw(<<"Input buffer contains unsupported image format">>)
        ELSE Return(Document(
                [filename |-> NameOr(filename, "image"), format |-> "image",
                 title |-> NameOr(filename, "Image Document")],
                <<[type |-> "paragraph", text |-> <<"[No text detected in image]">>,
                   metadata |-> [note |-> <<"no readable text">>]]>>))

\* IpynbBackend.convert; the cells are not rendered
IpynbBackend_convert(source, filename) ==
    LET b == BufferOf(source)
    IN  IF b.throws THEN b
        ELSE IF ~JSONParse(b.value).ok
        THEN Throw(<<"Unexpected token in JSON">>)
        ELSE Return(Document(
                [filename |-> NameOr(filename, "notebook.ipynb"), format |-> "ipynb",
                 title |-> <<"Jupyter Notebook">>],
                <<>>))

\* BingSerpBackend.convert; the result list is not rendered
BingSerpBackend_convert(source, filename) ==
    LET b == BufferOf(source)
    IN  IF b.throws THEN b
        ELSE Return(Document(
                [filename |-> NameOr(filename, "bing-search-results.html"), format |-> "bing_serp",
                 title |-> <<"Bing Search: Unknown">>],
                <<[type |-> "heading", level |-> 2,
                   text |-> <<"A Bing search for 'Unknown' found the following results:">>]>>))

\* YouTubeBackend.convert; the page metadata is not rendered
YouTubeBackend_convert(source, filename) ==
    LET b == BufferOf(source)
    IN  IF b.throws THEN b
        ELSE Return(Document(
                [filename |-> NameOr(filename, "youtube-video.html"), format |-> "youtube",
                 title |-> <<"YouTube Video">>],
                <<[type |-> "title", text |-> <<"YouTube Video">>, level |-> 1]>>))

\* the value undefined
Undefined == [undefined |-> TRUE]

\* what convert of a backend supplied through setBackend may do: return a document,
\* throw, or resolve to undefined
CustomConvertOutcomes ==
    LET CustomDocument ==
            Document([filename |-> <<"custom">>, format |-> "text"],
                     <<[type |-> "heading", text |-> <<"C">>, level |-> 2],
                       [type |-> "section"],
                       [type |-> "formula", text |-> <<"x">>]>>)
    IN  {Return(CustomDocument), Throw(<<"custom convert failed">>), Return(Undefined)}

\* the outcomes of await backend.convert(source, filename) for the backends whose
\* convert is a single step here
convert(backend, source, filename) ==
    LET c == backend.class
    IN  IF c = "CustomBackend" THEN CustomConvertOutcomes
        ELSE {CASE c = "PDFBackend" -> PDFBackend_convert(source, filename)
                [] c = "DOCXBackend" -> DOCXBackend_convert(source, filename)
                [] c = "XLSXBackend" -> XLSXBackend_convert(source, filename)
                [] c = "HTMLBackend" -> HTMLBackend_convert(source, filename)
                [] c = "SubtitleBackend" -> SubtitleBackend_convert(source, filename)
                [] c = "ImageBackend" -> ImageBackend_convert(source, filename)
                [] c = "PlainTextBackend" -> PlainTextBackend_convert(source, filename)
                [] c = "XMLBackend" -> XMLBackend_convert(source, filename)
                [] c = "YouTubeBackend" -> YouTubeBackend_convert(source, filename)
                [] c = "BingSerpBackend" -> BingSerpBackend_convert(source, filename)
                [] c = "IpynbBackend" -> IpynbBackend_convert(source, filename)}

\* PPTXBackend.convert, from the parsed slides to the document
RECURSIVE PPTX_lines(_)
PPTX_lines(lines) ==
    IF lines = <<>> THEN <<>>
    ELSE (IF Trim(Head(lines)) # <<>> THEN <<Paragraph(Trim(Head(lines)))>> ELSE <<>>)
         \o PPTX_lines(Tail(lines))

RECURSIVE PPTX_slides(_, _)
PPTX_slides(slides, index) ==
    IF slides = <<>> THEN <<>>
    ELSE
        LET text       == Head(slides)
            slideTitle == IF Len(text) > 0 THEN text[1]
                          ELSE <<"Slide ">> \o NumStr(index + 1)
            textLines  == IF Len(text) > 1 THEN Tail(text) ELSE text
        IN  <<[type |-> "heading", text |-> slideTitle, level |-> 1]>>
            \o PPTX_lines(textLines)
            \o PPTX_slides(Tail(slides), index + 1)

PPTX_document(slides, filename) ==
    Document(
        [filename |-> NameOr(filename, "presentation.pptx"), format |-> "pptx",
         title |-> IF Len(slides) > 0 /\ Len(slides[1]) > 0 THEN slides[1][1]
                   ELSE NameOr(filename, "Untitled Presentation"),
         pageCount |-> Len(slides)],
        PPTX_slides(slides, 0))

(***************************************************************************)
(* The archive backend's pieces.                                           *)
(***************************************************************************)
RAW_TEXT_LIMIT == 10000

RAW_TRUNCATED == 1000

textExtensions ==
    {<<".", "t", "x", "t">>, <<".", "m", "d">>, <<".", "j", "s", "o", "n">>,
     <<".", "x", "m", "l">>, <<".", "c", "s", "v">>, <<".", "h", "t", "m", "l">>,
     <<".", "c", "s", "s">>, <<".", "j", "s">>, <<".", "t", "s">>}

BinaryNote(buffer) == Paragraph(<<"Binary file (">> \o NumStr(Len(buffer)) \o <<" bytes)">>)

\* ZIPBackend.addRawFileContent: the items it pushes
addRawFileContent(buffer, ext) ==
    IF ToLowerCase(ext) \in textExtensions THEN
        IF StrLen(buffer) < RAW_TEXT_LIMIT
        THEN <<[type |-> "code", text |-> buffer,
                metadata |-> [language |-> SliceFrom(ext, 1)]]>>
        ELSE <<Paragraph(<<"File is too large to display (">> \o NumStr(Len(buffer))
                         \o <<" bytes). Showing first 1000 characters:">>),
               [type |-> "code",
                text |-> SliceTo(buffer, RAW_TRUNCATED) \o <<"\n", "\n", "... (truncated)">>,
                metadata |-> [language |-> SliceFrom(ext, 1)]]>>
    ELSE <<BinaryNote(buffer)>>

ZIP_title(zipFileName) ==
    [type |-> "title", text |-> <<"ZIP Archive: ">> \o zipFileName, level |-> 1]

ZIP_heading(relativePath) ==
    [type |-> "heading", text |-> <<"File: ">> \o relativePath, level |-> 2]

ZIP_openError(msg) == Paragraph(<<"Error processing ZIP file: ">> \o msg)

ZIP_document(zipFileName, content) ==
    Document([filename |-> zipFileName, format |-> "zip", title |-> zipFileName], content)

MissingUnzipper ==
    <<"Optional dependency \"unzipper\" is not installed. Run \"npm install unzipper\" to enable ZIP support.">>

\* the position of the next entry of type File at or after position i, or 0
NextFile(files, i) ==
    IF \E k \in i..Len(files) : files[k].type = "File"
    THEN CHOOSE k \in i..Len(files) :
             files[k].type = "File" /\ \A j \in i..(k - 1) : files[j].type # "File"
    ELSE 0

(***************************************************************************)
(* MarkdownExporter.                                                       *)
(***************************************************************************)
\* the constructor: options ?? defaults
MarkdownOptions(options) ==
    [includeMetadata    |-> IF Has(options, "includeMetadata") THEN options.includeMetadata
                            ELSE TRUE,
     headingStyle       |-> IF Has(options, "headingStyle") THEN options.headingStyle
                            ELSE "atx",
     bulletChar         |-> IF Has(options, "bulletChar") THEN options.bulletChar ELSE "-",
     codeBlockStyle     |-> IF Has(options, "codeBlockStyle") THEN options.codeBlockStyle
                            ELSE "fenced",
     preserveFormatting |-> IF Has(options, "preserveFormatting")
                            THEN options.preserveFormatting ELSE TRUE]

Repeat(tok, n) == [i \in 1..n |-> tok]

NL == <<"\n">>

NLNL == <<"\n", "\n">>

\* MarkdownExporter.exportMetadata
exportMetadata(metadata) ==
    LET \* the metadata fields, in the order the backends write them
        MetadataKeys == <<"filename", "format", "title", "pageCount">>
        \* JSON.stringify of a metadata value
        MetadataValue(key, value) ==
            IF key = "pageCount" THEN NumStr(value)
            ELSE IF key = "format" THEN <<"\"", value, "\"">>
            ELSE <<"\"">> \o value \o <<"\"">>
        present == SelectSeq(MetadataKeys, LAMBDA k : k \in DOMAIN metadata)
        lines   == <<<<"---">>>>
                   \o [i \in 1..Len(present) |->
                          <<present[i], ":", " ">> \o MetadataValue(present[i], metadata[present[i]])]
                   \o <<<<"---">>>>
    IN  Join(lines, NL)

\* MarkdownExporter.exportHeading
exportHeading(item, opts) ==
    LET level == IF Has(item, "level") /\ item.level # 0 THEN item.level ELSE 1
        text  == TextOf(item)
        atx   == Repeat("#", level) \o <<" ">> \o text
    IN  IF opts.headingStyle = "atx" THEN atx
        ELSE IF level = 1 THEN text \o NL \o Repeat("=", StrLen(text))
        ELSE IF level = 2 THEN text \o NL \o Repeat("-", StrLen(text))
        ELSE atx

\* MarkdownExporter.exportTitle
exportTitle(item) == <<"#", " ">> \o TextOf(item)

\* MarkdownExporter.exportText
exportText(item, opts) ==
    LET text == TextOf(item)
        f    == item.formatting
        On(flag) == Has(f, flag) /\ f[flag]
        b == IF On("bold") THEN <<"*", "*">> \o text \o <<"*", "*">> ELSE text
        i == IF On("italic") THEN <<"*">> \o b \o <<"*">> ELSE b
        k == IF On("strikethrough") THEN <<"~", "~">> \o i \o <<"~", "~">> ELSE i
    IN  IF opts.preserveFormatting /\ Has(item, "formatting") THEN k ELSE text

\* MarkdownExporter.exportListItem
exportListItem(item, level, opts) ==
    Repeat(" ", 2 * level) \o <<opts.bulletChar, " ">> \o TextOf(item)

\* (variant) the separator line is written only under a row of header cells
exportTable_headerFlag(item) ==
    LET rows == IF Has(item, "rows") THEN item.rows ELSE <<>>
        Cells(r) == Join([j \in 1..Len(r) |-> r[j].text], <<" ", "|", " ">>)
        Line(body) == <<"|", " ">> \o body \o <<" ", "|">>
        separator == Join([j \in 1..Len(rows[1]) |-> <<"-", "-", "-">>], <<" ", "|", " ">>)
        flagged == \A j \in 1..Len(rows[1]) : rows[1][j].isHeader
    IN  IF Len(rows) = 0 THEN <<>>
        ELSE Join(<<Line(Cells(rows[1]))>>
                  \o (IF flagged THEN <<Line(separator)>> ELSE <<>>)
                  \o [i \in 1..(Len(rows) - 1) |-> Line(Cells(rows[i + 1]))], NL)

\* MarkdownExporter.exportTable
exportTable(item) ==
    LET rows == IF Has(item, "rows") THEN item.rows ELSE <<>>
        Cells(r) == Join([j \in 1..Len(r) |-> r[j].text], <<" ", "|", " ">>)
        Line(body) == <<"|", " ">> \o body \o <<" ", "|">>
        separator == Join([j \in 1..Len(rows[1]) |-> <<"-", "-", "-">>], <<" ", "|", " ">>)
    IN  IF Len(rows) = 0 THEN <<>>
        ELSE Join(<<Line(Cells(rows[1])), Line(separator)>>
                  \o [i \in 1..(Len(rows) - 1) |-> Line(Cells(rows[i + 1]))], NL)

\* MarkdownExporter.exportCode
exportCode(item, opts) ==
    LET code == TextOf(item)
    IN  IF opts.codeBlockStyle = "fenced"
        THEN <<BQ, BQ, BQ, "\n">> \o code \o <<"\n", BQ, BQ, BQ>>
        ELSE LET lines == Split(code, "\n")
             IN  Join([i \in 1..Len(lines) |-> Repeat(" ", 4) \o lines[i]], NL)

\* MarkdownExporter.exportFormula
exportFormula(item) == <<"$", "$">> \o TextOf(item) \o <<"$", "$">>

\* MarkdownExporter.exportImage
exportImage(item) ==
    LET m   == IF Has(item, "metadata") THEN item.metadata ELSE <<>>
        alt == IF Has(m, "alt") /\ m.alt # <<>> THEN m.alt ELSE TextOf(item)
        src == IF Has(m, "src") THEN m.src ELSE <<>>
    IN  <<"!", "[">> \o alt \o <<"]", "(">> \o src \o <<")">>

RECURSIVE exportContent(_, _, _)
RECURSIVE exportItem(_, _, _)
RECURSIVE exportList(_, _, _)

\* MarkdownExporter.exportSection
exportSection(item, level, opts) ==
    IF ~Has(item, "children") THEN <<>> ELSE exportContent(item.children, level, opts)

\* (variant) the children of a list item stay at the level of the item
exportList_sameLevel(item, level, opts) ==
    LET isOrdered == Has(item, "metadata") /\ Has(item.metadata, "ordered")
                     /\ item.metadata.ordered = TRUE
        children  == IF Has(item, "children") THEN item.children ELSE <<>>
        Prefix(index) == IF isOrdered THEN NumStr(index) \o <<".">> ELSE <<opts.bulletChar>>
        One(index) ==
            Repeat(" ", 2 * level) \o Prefix(index) \o <<" ">> \o TextOf(children[index])
            \o (IF Has(children[index], "children") /\ Len(children[index].children) > 0
                THEN NL \o exportContent(children[index].children, level, opts)
                ELSE <<>>)
    IN  Join([index \in 1..Len(children) |-> One(index)], NL)

\* MarkdownExporter.exportList
exportList(item, level, opts) ==
    LET isOrdered == Has(item, "metadata") /\ Has(item.metadata, "ordered")
                     /\ item.metadata.ordered = TRUE
        children  == IF Has(item, "children") THEN item.children ELSE <<>>
        Prefix(index) == IF isOrdered THEN NumStr(index) \o <<".">> ELSE <<opts.bulletChar>>
        One(index) ==
            Repeat(" ", 2 * level) \o Prefix(index) \o <<" ">> \o TextOf(children[index])
            \o (IF Has(children[index], "children") /\ Len(children[index].children) > 0
                THEN NL \o exportContent(children[index].children, level + 1, opts)
                ELSE <<>>)
    IN  Join([index \in 1..Len(children) |-> One(index)], NL)

\* MarkdownExporter.exportItem
exportItem(item, level, opts) ==
    CASE item.type = "heading" -> exportHeading(item, opts)
      [] item.type = "title" -> exportTitle(item)
      [] item.type \in {"paragraph", "text"} -> exportText(item, opts)
      [] item.type = "list" -> exportList(item, level, opts)
      [] item.type = "list_item" -> exportListItem(item, level, opts)
      [] item.type = "table" -> exportTable(item)
      [] item.type = "code" -> exportCode(item, opts)
      [] item.type = "formula" -> exportFormula(item)
      [] item.type = "image" -> exportImage(item)
      [] item.type = "section" -> exportSection(item, level, opts)
      [] OTHER -> TextOf(item)

\* MarkdownExporter.exportContent
exportContent(items, level, opts) ==
    Join([i \in 1..Len(items) |-> exportItem(items[i], level, opts)], NLNL)

\* MarkdownExporter.export (instance method): parts.filter(Boolean).join('\n\n')
exportDocument(document, opts) ==
    LET parts == (IF opts.includeMetadata THEN <<exportMetadata(document.metadata)>> ELSE <<>>)
                 \o <<exportContent(document.content, 0, opts)>>
    IN  Join(SelectSeq(parts, LAMBDA part : part # <<>>), NLNL)

\* static MarkdownExporter.export(document, options)
MarkdownExporter_export(document, options) == exportDocument(document, MarkdownOptions(options))

(***************************************************************************)
(* The dispatcher (MarkItDown) as a state machine.  One frame is one       *)
(* invocation of convert; the archive backend's nested calls stack frames. *)
(* A step runs from one await to the next.                                 *)
(***************************************************************************)
CallIds == {1, 2}

MaxSetBackend == 1

MaxTime == 1

Idle == [status |-> "idle"]

Pending == [status |-> "pending"]

None == [status |-> "none"]

\* (variant) a failure reported as a partial success
Failure_partial(message) == [status |-> "partial_success", errors |-> <<message>>]

Failure(message) == [status |-> "failure", errors |-> <<message>>]

\* (variant) convert without its catch: the error reaches the caller
Catch_rethrows(message) == [status |-> "rejected", reason |-> message]

\* the catch of convert: the error becomes a failure result
Catch(message) == Failure(message)

Success(document, json, markdown) ==
    [status |-> "success", document |-> document, json_content |-> json,
     markdown_content |-> markdown]

\* the constructor's registry: one instance per format
ConstructedBackends ==
    [f \in InputFormat |-> Instance(BackendClass[f], f, BackendClass[f] = "ZIPBackend")]

\* backends.get(format)
Lookup(registry, format) ==
    IF format \in DOMAIN registry THEN registry[format] ELSE NoBackend

NewFrame(source, filename) ==
    [pc |-> "detect", source |-> source, filename |-> filename, format |-> NoFormat,
     backend |-> NoBackend, content |-> <<>>, files |-> <<>>, idx |-> 0,
     entryBuffer |-> <<>>, filePath |-> [kind |-> "none", name |-> 0],
     needsCleanup |-> FALSE, outcome |-> None, pending |-> None]

Depth(c) == Len(stack[c])

Top(c) == stack[c][Len(stack[c])]

At(c, pc) == stack[c] # <<>> /\ Top(c).pc = pc

SetTop(c, frame) == stack' = [stack EXCEPT ![c] = [@ EXCEPT ![Len(@)] = frame]]

Event(ev, c, what) == [ev |-> ev, call |-> c, depth |-> Depth(c), what |-> what]

Logged(events) == log' = log \o events

\* convert resolves: the frame ends, and its result goes to the caller, which is the
\* archive backend one frame below or the top-level caller
Settle(c, res) ==
    LET rest == SubSeq(stack[c], 1, Len(stack[c]) - 1)
    IN  IF rest = <<>>
        THEN /\ stack' = [stack EXCEPT ![c] = <<>>]
             /\ result' = [result EXCEPT ![c] = res]
        ELSE /\ stack' = [stack EXCEPT ![c] =
                            [rest EXCEPT ![Len(rest)] = [@ EXCEPT !.pending = res]]]
             /\ UNCHANGED result

\* (variant) the exporter's own default, metadata included
ExportOptions_withMetadata == [includeMetadata |-> TRUE]

\* the options convert passes to MarkdownExporter.export
ExportOptions == [includeMetadata |-> FALSE]

\* const json_content = document.content: a TypeError when document is undefined
DocumentOf(outcome) ==
    IF ~outcome.throws /\ outcome.value = Undefined
    THEN Throw(<<"Cannot read properties of undefined (reading 'content')">>)
    ELSE outcome

\* the end of convert, from the settled backend.convert to the returned result
Finish(outcome) ==
    LET document == DocumentOf(outcome)
    IN  IF document.throws THEN Catch(document.msg)
        ELSE Success(document.value, document.value.content,
                     MarkdownExporter_export(document.value, ExportOptions))

\* an error thrown inside convert's try block, as a history event
Thrown(c, outcome) ==
    IF DocumentOf(outcome).throws THEN <<Event("throw", c, DocumentOf(outcome).msg)>>
    ELSE <<>>

\* (variant) the allow-list is consulted before the detection result
Refusal_allowFirst(format, allowed, registry) ==
    IF format \notin allowed THEN <<"Format ", format, " is not allowed">>
    ELSE IF format = NoFormat THEN <<"Unable to detect document format">>
    ELSE IF Lookup(registry, format) = NoBackend
    THEN <<"No backend available for format ", format>>
    ELSE <<>>

\* (variant) the allow-list is not consulted
Refusal_anyFormat(format, allowed, registry) ==
    IF format = NoFormat THEN <<"Unable to detect document format">>
    ELSE IF Lookup(registry, format) = NoBackend
    THEN <<"No backend available for format ", format>>
    ELSE <<>>

\* the checks convert makes on the detected format, in order; <<>> when all pass
Refusal(format, allowed, registry) ==
    IF format = NoFormat THEN <<"Unable to detect document format">>
    ELSE IF format \notin allowed THEN <<"Format ", format, " is not allowed">>
    ELSE IF Lookup(registry, format) = NoBackend
    THEN <<"No backend available for format ", format>>
    ELSE <<>>

InvalidDocument(format) == <<"Invalid ", format, " document">>

\* converter.convert(source, filename) is called
Call(c, source, filename) ==
    /\ result[c] = Idle
    /\ stack' = [stack EXCEPT ![c] = <<NewFrame(source, filename)>>]
    /\ result' = [result EXCEPT ![c] = Pending]
    /\ Logged(<<[ev |-> "call", call |-> c, depth |-> 1, what |-> <<source, filename>>]>>)
    /\ UNCHANGED <<allowedFormats, backends, unzipperInstalled, setCount, tmpfs, now,
                   sniffIn, sniffOut, exportIn, exporter, exported, wrapper>>

\* detectFormat settles; the allow-list check, the lookup and the call of isValid
Detect(c) ==
    /\ At(c, "detect")
    /\ LET f == Top(c)
           d == detectFormat(f.source, f.filename)
           refusal == Refusal(d.value, allowedFormats, backends)
       IN  IF d.throws
           THEN Settle(c, Catch(d.msg)) /\ Logged(Thrown(c, d))
           ELSE IF refusal # <<>>
           THEN Settle(c, Failure(refusal)) /\ Logged(<<Event("detect", c, d.value)>>)
           ELSE /\ SetTop(c, [f EXCEPT !.pc = "isValid", !.format = d.value,
                                       !.backend = Lookup(backends, d.value)])
                /\ UNCHANGED result
                /\ Logged(<<Event("detect", c, d.value), Event("isValid", c, d.value)>>)
    /\ UNCHANGED <<allowedFormats, backends, unzipperInstalled, setCount, tmpfs, now,
                   sniffIn, sniffOut, exportIn, exporter, exported, wrapper>>

\* where backend.convert first suspends
ConvertEntry(frame, time) ==
    IF frame.backend.class = "ZIPBackend" THEN [frame EXCEPT !.pc = "zipImport"]
    ELSE IF frame.backend.class = "PPTXBackend" THEN
        IF frame.source.kind = "buffer"
        THEN [frame EXCEPT !.pc = "pptxWrite", !.needsCleanup = TRUE,
                           !.filePath = [kind |-> "tmp", name |-> time]]
        ELSE [frame EXCEPT !.pc = "pptxParse",
                           !.filePath = [kind |-> "path", name |-> frame.source.data]]
    ELSE [frame EXCEPT !.pc = "convert"]

\* isValid settles; backend.convert is called
IsValid(c) ==
    /\ At(c, "isValid")
    /\ LET f == Top(c)
       IN  \E o \in isValid(f.backend, f.source) :
              IF o.throws
              THEN Settle(c, Catch(o.msg)) /\ Logged(Thrown(c, o))
              ELSE IF ~o.value
              THEN Settle(c, Failure(InvalidDocument(f.format))) /\ Logged(<<>>)
              ELSE /\ SetTop(c, ConvertEntry(f, now))
                   /\ UNCHANGED result
                   /\ Logged(<<Event("convert", c, f.format)>>)
    /\ UNCHANGED <<allowedFormats, backends, unzipperInstalled, setCount, tmpfs, now,
                   sniffIn, sniffOut, exportIn, exporter, exported, wrapper>>

\* (variant) the backend is looked up again when backend.convert is called
Convert_lookupAgain(c) ==
    /\ At(c, "convert")
    /\ LET f == Top(c)
           b == Lookup(backends, f.format)
       IN  IF b = NoBackend
           THEN /\ Settle(c, Catch(<<"Cannot read properties of undefined (reading 'convert')">>))
                /\ Logged(<<>>)
           ELSE \E o \in convert(b, f.source, f.filename) :
                   Settle(c, Finish(o)) /\ Logged(Thrown(c, o))
    /\ UNCHANGED <<allowedFormats, backends, unzipperInstalled, setCount, tmpfs, now,
                   sniffIn, sniffOut, exportIn, exporter, exported, wrapper>>

\* backend.convert settles (the backends that convert in one step)
Convert(c) ==
    /\ At(c, "convert")
    /\ LET f == Top(c)
       IN  \E o \in convert(f.backend, f.source, f.filename) :
              Settle(c, Finish(o)) /\ Logged(Thrown(c, o))
    /\ UNCHANGED <<allowedFormats, backends, unzipperInstalled, setCount, tmpfs, now,
                   sniffIn, sniffOut, exportIn, exporter, exported, wrapper>>

(***************************************************************************)
(* PPTXBackend.convert, step by step: a buffer goes through a temporary    *)
(* file named after the clock.                                             *)
(***************************************************************************)
Missing == [missing |-> TRUE]

\* the temporary files of /tmp, by the timestamp in their name
TmpRead(time) ==
    IF tmpfs[time] = Missing
    THEN Throw(<<"ENOENT: no such file or directory, open '/tmp/temp-">> \o NumStr(time)
               \o <<".pptx'">>)
    ELSE Return(tmpfs[time])

\* await fs.promises.writeFile(filePath, source)
PptxWrite(c) ==
    /\ At(c, "pptxWrite")
    /\ tmpfs' = [tmpfs EXCEPT ![Top(c).filePath.name] = Top(c).source.data]
    /\ SetTop(c, [Top(c) EXCEPT !.pc = "pptxParse"])
    /\ Logged(<<Event("writeFile", c, Top(c).filePath.name)>>)
    /\ UNCHANGED <<allowedFormats, backends, unzipperInstalled, setCount, result, now,
                   sniffIn, sniffOut, exportIn, exporter, exported, wrapper>>

\* (variant) the temporary file is unlinked at the end of the try block instead of
\* in finally: a parser failure leaves it behind
PptxParse_cleanupInTry(c) ==
    /\ At(c, "pptxParse")
    /\ LET f       == Top(c)
           bytes   == IF f.filePath.kind = "tmp" THEN TmpRead(f.filePath.name)
                      ELSE readFile(f.filePath.name)
           parsed  == IF bytes.throws THEN bytes ELSE PptxExtract(bytes.value)
           outcome == IF parsed.throws THEN parsed
                      ELSE Return(PPTX_document(parsed.value, f.filename))
       IN  IF f.needsCleanup /\ ~outcome.throws
           THEN /\ SetTop(c, [f EXCEPT !.pc = "pptxUnlink", !.outcome = outcome])
                /\ UNCHANGED result
                /\ Logged(<<Event("extractText", c, f.filePath.name)>>)
           ELSE /\ Settle(c, Finish(outcome))
                /\ Logged(<<Event("extractText", c, f.filePath.name)>> \o Thrown(c, outcome))
    /\ UNCHANGED <<allowedFormats, backends, unzipperInstalled, setCount, tmpfs, now,
                   sniffIn, sniffOut, exportIn, exporter, exported, wrapper>>

\* await parser.extractText() and the building of the document, up to finally
PptxParse(c) ==
    /\ At(c, "pptxParse")
    /\ LET f       == Top(c)
           bytes   == IF f.filePath.kind = "tmp" THEN TmpRead(f.filePath.name)
                      ELSE readFile(f.filePath.name)
           parsed  == IF bytes.throws THEN bytes ELSE PptxExtract(bytes.value)
           outcome == IF parsed.throws THEN parsed
                      ELSE Return(PPTX_document(parsed.value, f.filename))
       IN  IF f.needsCleanup
           THEN /\ SetTop(c, [f EXCEPT !.pc = "pptxUnlink", !.outcome = outcome])
                /\ UNCHANGED result
                /\ Logged(<<Event("extractText", c, f.filePath.name)>>)
           ELSE /\ Settle(c, Finish(outcome))
                /\ Logged(<<Event("extractText", c, f.filePath.name)>> \o Thrown(c, outcome))
    /\ UNCHANGED <<allowedFormats, backends, unzipperInstalled, setCount, tmpfs, now,
                   sniffIn, sniffOut, exportIn, exporter, exported, wrapper>>

\* finally: await fs.promises.unlink(filePath), its error ignored
PptxUnlink(c) ==
    /\ At(c, "pptxUnlink")
    /\ tmpfs' = [tmpfs EXCEPT ![Top(c).filePath.name] = Missing]
    /\ Settle(c, Finish(Top(c).outcome))
    /\ Logged(<<Event("unlink", c, Top(c).filePath.name)>> \o Thrown(c, Top(c).outcome))
    /\ UNCHANGED <<allowedFormats, backends, unzipperInstalled, setCount, now,
                   sniffIn, sniffOut, exportIn, exporter, exported, wrapper>>

\* Date.now() moves on
Tick ==
    /\ now < MaxTime
    /\ now' = now + 1
    /\ UNCHANGED <<allowedFormats, backends, unzipperInstalled, setCount, stack, result,
                   tmpfs, log, sniffIn, sniffOut, exportIn, exporter, exported, wrapper>>

(***************************************************************************)
(* ZIPBackend.convert, step by step.                                       *)
(***************************************************************************)
ZipName(frame) == NameOr(frame.filename, "archive.zip")

\* the loop moves to the next File entry and awaits entry.buffer(), or ends and
\* convert returns the document
ZipAdvance(c, frame, i) ==
    LET k == NextFile(frame.files, i)
    IN  IF k = 0
        THEN Settle(c, Finish(Return(ZIP_document(ZipName(frame), frame.content))))
        ELSE /\ SetTop(c, [frame EXCEPT !.pc = "zipEntry", !.idx = k])
             /\ UNCHANGED result

\* (variant) an archive that cannot be opened makes convert throw
ZipAbort_throws(c, frame, msg) == Settle(c, Finish(Throw(msg)))

\* the outer catch: the error paragraph, then the document
ZipAbort(c, frame, msg) ==
    Settle(c, Finish(Return(ZIP_document(ZipName(frame),
                                         Append(frame.content, ZIP_openError(msg))))))

\* (variant) the import is not awaited before the archive is read
ZipImport_unchecked(c) ==
    /\ At(c, "zipImport")
    /\ SetTop(c, [Top(c) EXCEPT !.pc = "zipOpen", !.entryBuffer = BufferOf(Top(c).source).value,
                                !.content = <<ZIP_title(ZipName(Top(c)))>>])
    /\ Logged(<<Event("import", c, unzipperInstalled)>>)
    /\ UNCHANGED <<allowedFormats, backends, unzipperInstalled, setCount, result, tmpfs, now,
                   sniffIn, sniffOut, exportIn, exporter, exported, wrapper>>

\* await import('unzipper'), the read of the source and the title
ZipImport(c) ==
    /\ At(c, "zipImport")
    /\ LET f == Top(c)
           b == BufferOf(f.source)
       IN  IF ~unzipperInstalled
           THEN /\ Settle(c, Finish(Throw(MissingUnzipper)))
                /\ Logged(<<Event("import", c, FALSE)>> \o Thrown(c, Throw(MissingUnzipper)))
           ELSE IF b.throws
           THEN /\ Settle(c, Finish(b))
                /\ Logged(<<Event("import", c, TRUE)>> \o Thrown(c, b))
           ELSE /\ SetTop(c, [f EXCEPT !.pc = "zipOpen", !.entryBuffer = b.value,
                                       !.content = <<ZIP_title(ZipName(f))>>])
                /\ UNCHANGED result
                /\ Logged(<<Event("import", c, TRUE)>>)
    /\ UNCHANGED <<allowedFormats, backends, unzipperInstalled, setCount, tmpfs, now,
                   sniffIn, sniffOut, exportIn, exporter, exported, wrapper>>

\* await unzipper.Open.buffer(buffer)
ZipOpen(c) ==
    /\ At(c, "zipOpen")
    /\ LET f == Top(c)
           d == UnzipOpen(f.entryBuffer)
       IN  IF d.throws THEN ZipAbort(c, f, d.msg)
           ELSE ZipAdvance(c, [f EXCEPT !.files = d.value], 1)
    /\ Logged(<<Event("open", c, Top(c).entryBuffer)>>)
    /\ UNCHANGED <<allowedFormats, backends, unzipperInstalled, setCount, tmpfs, now,
                   sniffIn, sniffOut, exportIn, exporter, exported, wrapper>>

\* await entry.buffer() settles; the heading, then the nested convert is called or
\* the raw content is added
ZipEntry(c) ==
    /\ At(c, "zipEntry")
    /\ LET f     == Top(c)
           entry == f.files[f.idx]
           g     == [f EXCEPT !.content = Append(@, ZIP_heading(entry.path)),
                              !.entryBuffer = entry.data.value]
       IN  IF entry.data.throws THEN ZipAbort(c, f, entry.data.msg)
           ELSE IF f.backend.parent
           THEN /\ stack' = [stack EXCEPT ![c] =
                               [@ EXCEPT ![Len(@)] = [g EXCEPT !.pc = "zipNested"]]
                               \o <<NewFrame(Buf(entry.data.value), entry.path)>>]
                /\ UNCHANGED result
           ELSE ZipAdvance(c, [g EXCEPT !.content =
                                  @ \o addRawFileContent(entry.data.value,
                                                         Extname(entry.path))],
                           f.idx + 1)
    /\ Logged(<<Event("entry.buffer", c, Top(c).files[Top(c).idx].path)>>)
    /\ UNCHANGED <<allowedFormats, backends, unzipperInstalled, setCount, tmpfs, now,
                   sniffIn, sniffOut, exportIn, exporter, exported, wrapper>>

\* (variant) the entry's items are put before its heading
ZipNested_beforeHeading(c) ==
    /\ At(c, "zipNested")
    /\ LET f     == Top(c)
           entry == f.files[f.idx]
           r     == f.pending
           added == IF r.status = "success"
                    THEN r.document.content
                    ELSE addRawFileContent(f.entryBuffer, Extname(entry.path))
       IN  ZipAdvance(c, [f EXCEPT !.content = SubSeq(@, 1, Len(@) - 1) \o added
                                                \o <<@[Len(@)]>>,
                                   !.pending = None], f.idx + 1)
    /\ Logged(<<Event("nested", c, Top(c).pending.status)>>)
    /\ UNCHANGED <<allowedFormats, backends, unzipperInstalled, setCount, tmpfs, now,
                   sniffIn, sniffOut, exportIn, exporter, exported, wrapper>>

\* (variant) a nested result is kept as one item holding its items as children
ZipNested_asSection(c) ==
    /\ At(c, "zipNested")
    /\ LET f     == Top(c)
           entry == f.files[f.idx]
           r     == f.pending
           added == IF r.status = "success"
                    THEN <<[type |-> "section", children |-> r.document.content]>>
                    ELSE addRawFileContent(f.entryBuffer, Extname(entry.path))
       IN  ZipAdvance(c, [f EXCEPT !.content = @ \o added, !.pending = None], f.idx + 1)
    /\ Logged(<<Event("nested", c, Top(c).pending.status)>>)
    /\ UNCHANGED <<allowedFormats, backends, unzipperInstalled, setCount, tmpfs, now,
                   sniffIn, sniffOut, exportIn, exporter, exported, wrapper>>

\* await this.parentConverter.convert(entryBuffer, relativePath) settles
ZipNested(c) ==
    /\ At(c, "zipNested")
    /\ LET f     == Top(c)
           entry == f.files[f.idx]
           r     == f.pending
           added == IF r.status = "success"
                    THEN r.document.content
                    ELSE addRawFileContent(f.entryBuffer, Extname(entry.path))
       IN  ZipAdvance(c, [f EXCEPT !.content = @ \o added, !.pending = None], f.idx + 1)
    /\ Logged(<<Event("nested", c, Top(c).pending.status)>>)
    /\ UNCHANGED <<allowedFormats, backends, unzipperInstalled, setCount, tmpfs, now,
                   sniffIn, sniffOut, exportIn, exporter, exported, wrapper>>

(***************************************************************************)
(* setBackend, the inputs, and the specification of one top-level call.    *)
(***************************************************************************)
\* what a caller registers: a backend of its own, an archive backend built without
\* a parent converter, or undefined
SetBackendChoices ==
    {<<"text", Instance("CustomBackend", "custom", FALSE)>>,
     <<"json", NoBackend>>,
     <<"zip", Instance("ZIPBackend", "custom", FALSE)>>}

\* setBackend(format, backend)
SetBackend(format, backend) ==
    /\ setCount < MaxSetBackend
    /\ backends' = [backends EXCEPT ![format] = backend]
    /\ setCount' = setCount + 1
    /\ UNCHANGED <<allowedFormats, unzipperInstalled, stack, result, tmpfs, now, log,
                   sniffIn, sniffOut, exportIn, exporter, exported, wrapper>>

Sources ==
    {Buf(Content[k]) : k \in DOMAIN Content} \cup {Path(Location[k]) : k \in DOMAIN Location}

FileNames ==
    {<<>>, EntryName.TXT, EntryName.JSON, EntryName.CSV, EntryName.ZIP, EntryName.BIN,
     <<"R", ".", "P", "D", "F">>, <<"w", ".", "d", "o", "c", "x">>,
     <<"s", ".", "x", "l", "s", "x">>, <<"p", ".", "h", "t", "m">>,
     <<"n", ".", "i", "p", "y", "n", "b">>, <<"i", ".", "p", "n", "g">>}

\* new MarkItDown(options): allowedFormats given or defaulted to every format
AllowedChoices == {InputFormat, {"zip", "text", "pptx", "html"}}

TimeStamps == 0..(MaxTime + 1)

Init ==
    /\ allowedFormats \in AllowedChoices
    /\ backends = ConstructedBackends
    /\ unzipperInstalled \in BOOLEAN
    /\ setCount = 0
    /\ stack = [c \in CallIds |-> <<>>]
    /\ result = [c \in CallIds |-> Idle]
    /\ tmpfs = [t \in TimeStamps |-> Missing]
    /\ now = 0
    /\ log = <<>>
    /\ sniffIn = None
    /\ sniffOut = None
    /\ exportIn = None
    /\ exporter = None
    /\ exported = <<>>
    /\ wrapper = None

\* the converter is configured before it is used
Configure ==
    /\ \A c \in CallIds : result[c] = Idle
    /\ \E choice \in SetBackendChoices : SetBackend(choice[1], choice[2])

Start == \E source \in Sources, filename \in FileNames : Call(1, source, filename)

Next ==
    \/ Configure
    \/ Start
    \/ Detect(1)
    \/ IsValid(1)
    \/ Convert(1)
    \/ PptxWrite(1)
    \/ PptxParse(1)
    \/ PptxUnlink(1)
    \/ ZipImport(1)
    \/ ZipOpen(1)
    \/ ZipEntry(1)
    \/ ZipNested(1)

Spec == Init /\ [][Next]_vars

Settled(c) == result[c].status \in {"success", "failure"}

\* the arguments of call c, from the history
CallEvent(c) == log[CHOOSE i \in DOMAIN log : log[i].ev = "call" /\ log[i].call = c]

SourceOf(c) == CallEvent(c).what[1]

FilenameOf(c) == CallEvent(c).what[2]

\* some step of call c at nesting depth d is in the history
Happened(c, ev, d) ==
    \E i \in DOMAIN log : log[i].ev = ev /\ log[i].call = c /\ log[i].depth = d

(***************************************************************************)
(* Two top-level calls on one converter, their steps interleaved.          *)
(***************************************************************************)
ConcSources == {Buf(Content.PPTX1), Buf(Content.PPTX2), Buf(Content.JSON)}

InitConc ==
    /\ allowedFormats = InputFormat
    /\ backends = ConstructedBackends
    /\ unzipperInstalled = TRUE
    /\ setCount = 0
    /\ stack = [c \in CallIds |-> <<>>]
    /\ result = [c \in CallIds |-> Idle]
    /\ tmpfs = [t \in TimeStamps |-> Missing]
    /\ now = 0
    /\ log = <<>>
    /\ sniffIn = None
    /\ sniffOut = None
    /\ exportIn = None
    /\ exporter = None
    /\ exported = <<>>
    /\ wrapper = None

StartConc(c) == \E source \in ConcSources : Call(c, source, <<>>)

NextConc ==
    \/ Tick
    \/ \E c \in CallIds :
          \/ StartConc(c)
          \/ Detect(c)
          \/ IsValid(c)
          \/ Convert(c)
          \/ PptxWrite(c)
          \/ PptxParse(c)
          \/ PptxUnlink(c)

SpecConc == InitConc /\ [][NextConc]_vars

(***************************************************************************)
(* detectFormat applied to one input.                                      *)
(***************************************************************************)
UpperChar(c) ==
    IF \E i \in 1..26 : LowerChars[i] = c
    THEN UpperChars[CHOOSE i \in 1..26 : LowerChars[i] = c]
    ELSE c

ToUpperCase(s) == [i \in 1..Len(s) |-> UpperChar(s[i])]

\* the keys of the extension table, as characters
Extensions ==
    {<<"p", "d", "f">>, <<"d", "o", "c", "x">>, <<"p", "p", "t", "x">>,
     <<"x", "l", "s", "x">>, <<"h", "t", "m", "l">>, <<"h", "t", "m">>,
     <<"v", "t", "t">>, <<"s", "r", "t">>, <<"p", "n", "g">>, <<"j", "p", "g">>,
     <<"j", "p", "e", "g">>, <<"t", "i", "f", "f">>, <<"t", "i", "f">>,
     <<"c", "s", "v">>, <<"j", "s", "o", "n">>, <<"t", "x", "t">>, <<"x", "m", "l">>,
     <<"r", "s", "s">>, <<"a", "t", "o", "m">>, <<"z", "i", "p">>,
     <<"i", "p", "y", "n", "b">>}

SniffNames ==
    {<<"f", ".">> \o e : e \in Extensions}
    \cup {<<"F", ".">> \o ToUpperCase(e) : e \in Extensions}
    \cup {<<>>, <<"f">>, <<"f", ".", "b", "i", "n">>, <<".", "t", "x", "t">>,
          <<"f", ".", "c", "o", "n", "s", "t", "r", "u", "c", "t", "o", "r">>}

\* byte strings handed to the sniffer: one per rule of detectFormatFromContent and
\* per boundary of it (the 100-byte header, the 10000-byte window, the five lines)
Sample ==
    [
     CSV5 |-> <<"a", ",", "b", ",", "c", ",", "d", "\n", "1", ",", "2", ",", "3", ",", "4", "4",
                "\n", "\n", "x", ",", "y", ",", "z", ",", "w", "\n", "5", ",", "6", ",", "7",
                ",", "8", "\n", "9", ",", "9", ",", "9", ",", "9">>,
     CSVODD |-> <<"a", ",", "b", ",", "c", ",", "d", "\n", "1", ",", "2", ",", "3", ",", "4",
                  "\n", "1", ",", "2", ",", "3", ",", "4", ",", "5", ",", "6", "\n", "1", ",",
                  "2", ",", "3", ",", "4">>,
     CSVNEAR |-> <<"a", ",", "b", ",", "c", "\n", "1", ",", "2", ",", "3", ",", "4", "\n", "1",
                   ",", "2">>,
     CSVGAP |-> <<"a", ",", "b", "\n", "\n", "\n", "\n", "\n", "c", ",", "d">>,
     CSVLATE |-> <<"a", ",", "b", "\n", "c", ",", "d", "\n", "\n", "\n", "\n", "e", ",", "f",
                   ",", "g", ",", "h", ",", "i">>,
     CSVONE |-> <<"a", ",", "b">>,
     NOCOMMA |-> <<"a", "\n", "b", ",", "c">>,
     SERP |-> <<"<", "h", "t", "m", "l", ">", "b", "i", "n", "g", ".", "c", "o", "m", " ", "b",
                "_", "a", "l", "g", "o">>,
     SERPBOX |-> <<"<", "!", "D", "O", "C", "T", "Y", "P", "E", ">", "b", "i", "n", "g", ".",
                   "c", "o", "m", " ", "b", "_", "s", "e", "a", "r", "c", "h", "b", "o", "x",
                   "S", "u", "b", "m", "i", "t">>,
     HTMLBING |-> <<"<", "h", "t", "m", "l", ">", "b", "i", "n", "g", ".", "c", "o", "m">>,
     HTMLALGO |-> <<"<", "h", "t", "m", "l", ">", "b", "_", "a", "l", "g", "o">>,
     HTMLMID |-> <<"h", "i", " ", "<", "h", "t", "m", "l", ">">>,
     ATOM |-> <<"<", "f", "e", "e", "d", ">">>,
     XMLPAD |-> <<" ", "<", "a", "/", ">">>,
     JSONARR |-> <<"[", "1", "]">>,
     JSONPAD |-> <<" ", "{", "\"", "a", "\"", ":", "1", "}">>,
     CELLSNUM |-> <<"{", "\"", "c", "e", "l", "l", "s", "\"", ":", "1", "}">>,
     PDFPK |-> <<"%", "P", "D", "F", "-", "P", "K">>,
     VTTCSV |-> <<"W", "E", "B", "V", "T", "T", ",", "x", "\n", "a", ",", "b">>,
     SRTBAD |-> <<"1", "\n", "0", ":", "0", "1">>,
     PPTXL |-> PK34 \o <<"x", "l", "/", "p", "p", "t", "/">>,
     DOCXALL |-> PK34 \o <<"x", "l", "/", "p", "p", "t", "/", "w", "o", "r", "d", "/">>,
     PKSHORT |-> <<"P", "K", "x03">>,
     DOCXFAR |-> PK34 \o Spaces(FULL_BYTES) \o <<"w", "o", "r", "d", "/">>,
     CSVWIDE |-> Repeat("a", HEADER_BYTES + 1)
                 \o <<",", "b", ",", "c", "\n", "1", ",", "2", ",", "3">>,
     HTMLLATE |-> Spaces(HEADER_BYTES) \o <<"<", "h", "t", "m", "l", ">">>,
     SERPFAR |-> <<"<", "h", "t", "m", "l", ">">> \o Spaces(FULL_BYTES)
                 \o <<"b", "i", "n", "g", ".", "c", "o", "m", " ", "b", "_", "a", "l", "g", "o">>,
     WATCH |-> <<"<", "h", "t", "m", "l", ">", "y", "o", "u", "t", "u", "b", "e", ".", "c", "o",
                 "m", " ", "y", "t", "I", "n", "i", "t", "i", "a", "l", "D", "a", "t", "a">>
    ]

SniffSources ==
    {Buf(b) : b \in {Content.PDF, Content.ZIP2, Content.DOCX, Content.HTML, Content.JSON,
                     Content.CSV, Content.TEXT, Content.EMPTY, Content.PPTX1, Content.XLSX,
                     Content.RSS, Content.XMLDOC, Content.VTT, Content.SRT, Content.IPYNB,
                     Content.JSONBAD, Content.PNG}}
    \cup {Buf(Sample[k]) : k \in DOMAIN Sample}
    \cup {Path(Location[k]) : k \in DOMAIN Location}

InitSniff ==
    /\ sniffIn \in [source : SniffSources, filename : SniffNames]
    /\ sniffOut = None
    /\ exportIn = None
    /\ exporter = None
    /\ exported = <<>>
    /\ wrapper = None
    /\ allowedFormats = InputFormat
    /\ backends = ConstructedBackends
    /\ unzipperInstalled = TRUE
    /\ setCount = 0
    /\ stack = [c \in CallIds |-> <<>>]
    /\ result = [c \in CallIds |-> Idle]
    /\ tmpfs = [t \in TimeStamps |-> Missing]
    /\ now = 0
    /\ log = <<>>

\* await this.detectFormat(source, filename)
Sniff ==
    /\ sniffOut = None
    /\ sniffOut' = detectFormat(sniffIn.source, sniffIn.filename)
    /\ UNCHANGED <<allowedFormats, backends, unzipperInstalled, setCount, stack, result,
                   tmpfs, now, log, sniffIn, exportIn, exporter, exported, wrapper>>

SpecSniff == InitSniff /\ [][Sniff]_vars

(***************************************************************************)
(* Properties.                                                             *)
(***************************************************************************)
FailureWith(message) == [status |-> "failure", errors |-> <<message>>]

\* C1: convert always resolves to a result and never rejects: whatever was thrown
\* inside it (a missing path, isValid, backend.convert, the serializer's input being
\* undefined) the call's result is status failure with errors = [that message], and
\* a nested call hands its caller a result too.
C1_NeverRejects ==
    \A c \in CallIds :
        /\ result[c].status \in {"idle", "pending", "success", "failure"}
        /\ \A i \in DOMAIN log :
              (log[i].ev = "throw" /\ log[i].call = c /\ log[i].depth = 1)
                  => result[c] = FailureWith(log[i].what)
        /\ \A k \in DOMAIN stack[c] :
              stack[c][k].pending.status \in {"none", "success", "failure"}

C1_Witness ==
    /\ Happened(1, "throw", 1)
    /\ SourceOf(1) = Path(Location.MISSING)
    /\ result[1] = FailureWith(ENOENT(Location.MISSING))

\* C2: a failing convert reports the first failing check, in the order: nothing
\* detected, format not allowed, no backend registered, isValid false; a buffer with
\* no signature and no filename fails with "Unable to detect document format".
C2_FirstFailingCheck ==
    Settled(1) =>
        LET d == detectFormat(SourceOf(1), FilenameOf(1))
            X == d.value
        IN  ~d.throws =>
                IF X = NoFormat
                THEN result[1] = FailureWith(<<"Unable to detect document format">>)
                ELSE IF X \notin allowedFormats
                THEN result[1] = FailureWith(<<"Format ", X, " is not allowed">>)
                ELSE IF backends[X] = NoBackend
                THEN result[1] = FailureWith(<<"No backend available for format ", X>>)
                ELSE IF isValid(backends[X], SourceOf(1)) = {Return(FALSE)}
                THEN result[1] = FailureWith(<<"Invalid ", X, " document">>)
                ELSE result[1].status = "failure" =>
                        /\ result[1].errors[1][1] \notin
                              {"Unable to detect document format", "Format ",
                               "No backend available for format "}
                        /\ result[1].errors[1][1] = "Invalid "
                              => Return(FALSE) \in isValid(backends[X], SourceOf(1))

\* a source that fails three checks at once reports the allow-list
C2_Witness ==
    /\ Settled(1)
    /\ SourceOf(1) = Buf(Content.TEXT)
    /\ FilenameOf(1) = EntryName.JSON
    /\ "json" \notin allowedFormats
    /\ backends["json"] = NoBackend
    /\ result[1] = FailureWith(<<"Format ", "json", " is not allowed">>)

DefaultExport ==
    [includeMetadata |-> FALSE, headingStyle |-> "atx", bulletChar |-> "-",
     codeBlockStyle |-> "fenced", preserveFormatting |-> TRUE]

\* C3: on success json_content is the document's content sequence itself and
\* markdown_content is the serializer's rendering of that content with no metadata
\* block and every other option at its default.
C3_DerivedOutputs ==
    \A c \in CallIds :
        result[c].status = "success" =>
            /\ result[c].json_content = result[c].document.content
            /\ result[c].markdown_content =
                   exportContent(result[c].document.content, 0, DefaultExport)

C3_Witness ==
    /\ result[1].status = "success"
    /\ SourceOf(1) = Buf(Content.HTMLTABLE)
    /\ Len(result[1].json_content) > 1
    /\ "title" \in DOMAIN result[1].document.metadata
    /\ result[1].markdown_content # <<>>

HasExtension(name, e) ==
    LET base == Basename(name)
    IN  /\ Len(base) > Len(e) + 1
        /\ ToLowerCase(SubSeq(base, Len(base) - Len(e), Len(base))) = <<".">> \o e

TableExtension(name) == CHOOSE e \in Extensions : HasExtension(name, e)

InTable(name) == \E e \in Extensions : HasExtension(name, e)

\* C5: a filename whose extension is in the table, in any case, decides the format
\* whatever the bytes are; the filename is consulted before the path; the content is
\* looked at (and a read error can only arise) when neither extension is in the table.
C5_ExtensionWins ==
    sniffOut # None =>
        LET name == sniffIn.filename
            src  == sniffIn.source
        IN  IF InTable(name)
            THEN sniffOut = Return(ExtensionTable[Str(TableExtension(name))])
            ELSE IF src.kind = "path" /\ InTable(src.data)
            THEN Str(ExtOf(name)) \notin DOMAIN Inherited
                    => sniffOut = Return(ExtensionTable[Str(TableExtension(src.data))])
            ELSE Str(ExtOf(name)) \notin DOMAIN Inherited
                    => sniffOut = detectFormatFromContent(src)

\* an upper-case .TXT name on a path that ends in .pdf and holds PDF bytes
C5_Witness ==
    /\ sniffIn.filename = <<"F", ".", "T", "X", "T">>
    /\ sniffIn.source = Path(Location.PDF)
    /\ sniffOut = Return("text")

RECURSIVE TablesIn(_)
\* the table items of a content sequence, nested ones included
TablesIn(items) ==
    IF items = <<>> THEN <<>>
    ELSE (IF Head(items).type = "table" THEN <<Head(items)>> ELSE <<>>)
         \o (IF Has(Head(items), "children") THEN TablesIn(Head(items).children) ELSE <<>>)
         \o TablesIn(Tail(items))

Widest(rows) ==
    IF rows = <<>> THEN 0
    ELSE CHOOSE n \in {Len(rows[i]) : i \in DOMAIN rows} :
             \A i \in DOMAIN rows : Len(rows[i]) <= n

\* C6: every table item of a converted document has numRows = the number of its rows
\* and numCols = the length of its longest row (0 without rows).
C6_TableDimensions ==
    result[1].status = "success" =>
        LET tables == TablesIn(result[1].document.content)
        IN  \A i \in DOMAIN tables :
                /\ tables[i].numRows = Len(tables[i].rows)
                /\ tables[i].numCols = Widest(tables[i].rows)

\* the archive of a top-level call that got as far as opening it
ArchiveOf(c) == UnzipOpen(BufferOf(SourceOf(c)).value)

\* C7: once the archive is open, no entry's failure aborts it: the result is a
\* success and every File entry, in particular each one after an entry whose bytes
\* cannot be read, has its "File: <path>" heading in the content.
C7_EntryFailureNeverAborts ==
    (Settled(1) /\ Happened(1, "open", 1) /\ ~ArchiveOf(1).throws) =>
        /\ result[1].status = "success"
        /\ \A k \in DOMAIN ArchiveOf(1).value :
              ArchiveOf(1).value[k].type = "File" =>
                  \E j \in DOMAIN result[1].document.content :
                      result[1].document.content[j] = ZIP_heading(ArchiveOf(1).value[k].path)

\* what convert(source, filename) resolves to on a freshly constructed converter
\* when no other call is in flight
RunAlone(source, filename) ==
    LET d       == detectFormat(source, filename)
        backend == Lookup(ConstructedBackends, d.value)
        valid   == CHOOSE o \in isValid(backend, source) : TRUE
        parsed  == IF BufferOf(source).throws THEN BufferOf(source)
                   ELSE PptxExtract(BufferOf(source).value)
        outcome == IF backend.class # "PPTXBackend"
                   THEN CHOOSE o \in convert(backend, source, filename) : TRUE
                   ELSE IF parsed.throws THEN parsed
                   ELSE Return(PPTX_document(parsed.value, filename))
    IN  IF d.throws THEN Catch(d.msg)
        ELSE IF Refusal(d.value, InputFormat, ConstructedBackends) # <<>>
        THEN Failure(Refusal(d.value, InputFormat, ConstructedBackends))
        ELSE IF ~valid.value THEN Failure(InvalidDocument(d.value))
        ELSE Finish(outcome)

\* C8: concurrent top-level calls are independent: each resolves to what it would
\* resolve to alone, two conversions of PPTX buffers included.
C8_Independent ==
    \A c \in CallIds : Settled(c) => result[c] = RunAlone(SourceOf(c), FilenameOf(c))

\* the selected backend's parser cannot interpret the content of the source
Uninterpretable(format, buffer) ==
    \/ format = "zip" /\ UnzipOpen(buffer).throws
    \/ format = "json" /\ ~isValidJSON(buffer)
    \/ format = "pdf" /\ PdfToPages(buffer).throws
    \/ format = "docx" /\ Mammoth(buffer).throws
    \/ format = "xlsx" /\ ExcelLoad(buffer).throws
    \/ format = "pptx" /\ PptxExtract(buffer).throws
    \/ format = "image" /\ ~SharpReads(buffer)

\* the format and bytes of a top-level call whose source passed isValid
ConvertedFormat(c) == detectFormat(SourceOf(c), FilenameOf(c)).value

ConvertedBytes(c) == BufferOf(SourceOf(c)).value

ReachedConvert(c) ==
    /\ Settled(c)
    /\ Happened(c, "convert", 1)
    /\ unzipperInstalled
    /\ backends[ConvertedFormat(c)].class # "CustomBackend"

C10_MissingDependency ==
    ~unzipperInstalled =>
        /\ \A i \in DOMAIN log : log[i].ev \notin {"open", "entry.buffer", "nested"}
        /\ \A c \in CallIds :
              Happened(c, "import", 1) =>
                  /\ result[c] = FailureWith(MissingUnzipper)
                  /\ "document" \notin DOMAIN result[c]

C10_Witness ==
    /\ ~unzipperInstalled
    /\ Happened(1, "import", 1)
    /\ result[1].status = "failure"
    /\ SourceOf(1) = Buf(Content.ZIP2)
    /\ result[1].errors = <<MissingUnzipper>>

(***************************************************************************)
(* The sniffer, rule by rule.                                              *)
(***************************************************************************)
\* a buffer was sniffed: no extension of the table, and none of Object.prototype's keys
SniffedBuffer ==
    /\ sniffOut # None
    /\ sniffIn.source.kind = "buffer"
    /\ ~InTable(sniffIn.filename)
    /\ Str(ExtOf(sniffIn.filename)) \notin DOMAIN Inherited

\* no rule before the CSV heuristic matched
ReachesCsvStep(buffer) == SniffBytes(buffer) \in {"csv", NoFormat}

Commas(line) == CountChar(line, ",")

\* C11 (as stated): a buffer that reaches the CSV step is CSV exactly when, over the
\* first five non-blank lines of its content, the first line has a comma and every
\* line's comma count is within 1 of the first line's, whatever the line lengths and
\* wherever the blank lines fall.
C11_FirstFiveNonBlank ==
    (SniffedBuffer /\ ReachesCsvStep(sniffIn.source.data)) =>
        LET lines == SliceTo(FilterNonBlank(Split(sniffIn.source.data, "\n")), 5)
        IN  sniffOut = Return("csv")
                <=> /\ lines # <<>>
                    /\ Commas(lines[1]) >= 1
                    /\ \A i \in DOMAIN lines : Abs(Commas(lines[i]) - Commas(lines[1])) <= 1

\* C11 (amended): a buffer that reaches the CSV step is CSV exactly when, among the
\* first five lines of its first 100 bytes, at least two are non-blank, the first
\* non-blank one has a comma, and every non-blank one's comma count is within 1 of it.
C11_FirstFiveLines ==
    (SniffedBuffer /\ ReachesCsvStep(sniffIn.source.data)) =>
        LET lines == Split(SliceTo(sniffIn.source.data, HEADER_BYTES), "\n")
            kept  == {i \in 1..Min(CSV_LINES, Len(lines)) : Trim(lines[i]) # <<>>}
            first == CHOOSE i \in kept : \A j \in kept : i <= j
        IN  sniffOut = Return("csv")
                <=> /\ Cardinality(kept) >= 2
                    /\ Commas(lines[first]) >= 1
                    /\ \A i \in kept : Abs(Commas(lines[i]) - Commas(lines[first])) <= 1

\* two comma-separated lines five blank lines apart are not CSV
C11_Witness ==
    /\ sniffOut = Return(NoFormat)
    /\ sniffIn.source = Buf(Sample.CSVGAP)
    /\ sniffIn.filename = <<>>

\* the directory names of the Office formats, looked for in the whole content
PkFormat(content) ==
    IF Includes(content, <<"w", "o", "r", "d", "/">>) THEN "docx"
    ELSE IF Includes(content, <<"p", "p", "t", "/">>) THEN "pptx"
    ELSE IF Includes(content, <<"x", "l", "/">>) THEN "xlsx"
    ELSE "zip"

\* C12: a sniffed buffer that begins with PK\x03\x04 is DOCX if its content contains
\* 'word/', else PPTX if it contains 'ppt/', else XLSX if it contains 'xl/', else ZIP.
C12_PkDisambiguation ==
    (SniffedBuffer /\ StartsWith(sniffIn.source.data, PK34)) =>
        sniffOut = Return(PkFormat(sniffIn.source.data))

\* an archive that holds all three directory names is DOCX
C12_Witness ==
    /\ sniffOut = Return("docx")
    /\ sniffIn.source = Buf(Sample.DOCXALL)
    /\ sniffIn.filename = <<>>

HtmlTags == {<<"<", "h", "t", "m", "l">>, <<"<", "!", "D", "O", "C", "T", "Y", "P", "E">>}

\* the result-page markers, looked for in text
SerpMarkers(text) ==
    /\ Includes(text, <<"b", "i", "n", "g", ".", "c", "o", "m">>)
    /\ \/ Includes(text, <<"b", "_", "a", "l", "g", "o">>)
       \/ Includes(text, <<"b", "_", "s", "e", "a", "r", "c", "h", "b", "o", "x",
                           "S", "u", "b", "m", "i", "t">>)

\* the rule list of C18; html says when the HTML rule matches
FirstMatch(buffer, html) ==
    LET header == SliceTo(buffer, HEADER_BYTES)
        lead   == Trim(header)
    IN  IF StartsWith(buffer, <<"%", "P", "D", "F", "-">>) THEN "pdf"
        ELSE IF StartsWith(buffer, PK34)
        THEN PkFormat(buffer)
        ELSE IF html
        THEN CHOOSE f \in {"html", "bing_serp"} :
                 f = "bing_serp" <=> SerpMarkers(SliceTo(buffer, FULL_BYTES))
        ELSE IF StartsWith(buffer, <<"W", "E", "B", "V", "T", "T">>) THEN "vtt"
        ELSE IF SrtPattern(header) THEN "srt"
        ELSE IF StartsWith(lead, <<"<">>)
        THEN IF Includes(header, <<"<", "r", "s", "s">>) THEN "rss"
             ELSE IF Includes(header, <<"<", "f", "e", "e", "d">>) THEN "atom"
             ELSE "xml"
        ELSE IF /\ StartsWith(lead, <<"{">>) \/ StartsWith(lead, <<"[">>)
                /\ JSONParse(buffer).ok
        THEN IF /\ JHas(JSONParse(buffer).val, <<"c", "e", "l", "l", "s">>)
                /\ JGet(JSONParse(buffer).val, <<"c", "e", "l", "l", "s">>).t = "arr"
             THEN "ipynb"
             ELSE "json"
        ELSE IF looksLikeCSV(header) THEN "csv"
        ELSE NoFormat

\* C18 (as stated): the sniffer's result is the first matching rule of the list PDF,
\* PK magic, HTML, VTT, SRT, XML family, JSON family, CSV, none, and a buffer is
\* classified HTML (or result page) only if its content begins with '<html' or
\* '<!DOCTYPE'.
C18_HtmlAtStart ==
    SniffedBuffer =>
        LET content == sniffIn.source.data
        IN  sniffOut = Return(FirstMatch(content,
                                         \E tag \in HtmlTags : StartsWith(TrimStart(content), tag)))

\* C18 (amended): the same rule list, where the HTML rule matches when '<html' or
\* '<!DOCTYPE' occurs anywhere in the first 100 bytes.
C18_HtmlInHeader ==
    SniffedBuffer =>
        LET content == sniffIn.source.data
        IN  sniffOut = Return(FirstMatch(content,
                                         \E tag \in HtmlTags :
                                             Includes(SliceTo(content, HEADER_BYTES), tag)))

\* text that mentions '<html' after other words is HTML
C18_Witness ==
    /\ sniffOut = Return("html")
    /\ sniffIn.source = Buf(Sample.HTMLMID)
    /\ sniffIn.filename = <<>>

\* the HTML rule matched
HtmlSignature == SniffedBuffer /\ sniffOut \in {Return("html"), Return("bing_serp")}

\* C19 (as stated): a buffer that matches the HTML signature is the result-page
\* format exactly when its content contains 'bing.com' together with 'b_algo' or
\* 'b_searchboxSubmit', wherever in the content they occur.
C19_MarkersAnywhere ==
    HtmlSignature => (sniffOut = Return("bing_serp") <=> SerpMarkers(sniffIn.source.data))

\* C19 (amended): ... exactly when the first 10000 bytes of its content contain
\* 'bing.com' together with 'b_algo' or 'b_searchboxSubmit'.
C19_MarkersInWindow ==
    HtmlSignature =>
        (sniffOut = Return("bing_serp")
            <=> SerpMarkers(SliceTo(sniffIn.source.data, FULL_BYTES)))

\* a page whose markers come after the first 10000 bytes is generic HTML
C19_Witness ==
    /\ sniffOut = Return("html")
    /\ sniffIn.source = Buf(Sample.SERPFAR)
    /\ sniffIn.filename = <<>>

(***************************************************************************)
(* The Markdown exporter used on its own: an instance is constructed and   *)
(* its export method called, or the static export is called.               *)
(***************************************************************************)
MaxExports == 2

\* documents of lists: lists in list items three levels deep, ordered and not; a
\* section between a list item and its list; two ordered lists one after the other
ListDocuments ==
    LET Meta == [filename |-> <<"l", ".", "m", "d">>, format |-> "text"]
        Li(text) == [type |-> "list_item", text |-> text]
        LiWith(text, children) ==
            [type |-> "list_item", text |-> text, children |-> children]
        Ul(children) == [type |-> "list", metadata |-> [ordered |-> FALSE],
                         children |-> children]
        Ol(children) == [type |-> "list", metadata |-> [ordered |-> TRUE],
                         children |-> children]
        Bare(children) == [type |-> "list", children |-> children]
        Section(children) == [type |-> "section", children |-> children]
    IN  {Document(Meta,
                  <<Ul(<<Li(<<"a">>),
                         LiWith(<<"b">>,
                                <<Ol(<<Li(<<"x">>),
                                       LiWith(<<"y">>, <<Bare(<<Li(<<"z">>)>>)>>)>>)>>),
                         Li(<<"c">>)>>)>>),
         Document(Meta,
                  <<Ol(<<LiWith(<<"p">>, <<Section(<<Ul(<<Li(<<"q">>)>>)>>)>>),
                         Li(<<"r">>)>>),
                    Section(<<Ol(<<Li(<<"s">>)>>)>>)>>)}

\* documents of one table: data cells first and header cells second; ragged rows
\* with an empty one; no rows; no rows field
TableDocuments ==
    LET Meta == [filename |-> <<"t", ".", "m", "d">>, format |-> "text"]
        Cell(text, h) == [text |-> text, isHeader |-> h]
        Table(rows) == [type |-> "table", rows |-> rows, numRows |-> Len(rows),
                        numCols |-> IF rows = <<>> THEN 0 ELSE Len(rows[1])]
    IN  {Document(Meta, <<Table(<< <<Cell(<<"a">>, FALSE), Cell(<<"b">>, FALSE)>>,
                                   <<Cell(<<"1">>, TRUE), Cell(<<"2">>, TRUE)>> >>)>>),
         Document(Meta, <<Table(<< <<Cell(<<"k">>, TRUE)>>,
                                   <<Cell(<<"1">>, FALSE), Cell(<<"2">>, FALSE),
                                     Cell(<<"3">>, FALSE)>>,
                                   <<>> >>)>>),
         Document(Meta, <<Table(<<>>)>>),
         Document(Meta, <<[type |-> "table"]>>)}

ExportDocuments ==
    LET Title == <<"T", "i", "t", "l", "e">>
        Meta  == [filename |-> <<"d", ".", "m", "d">>, format |-> "text", title |-> Title]
        One(item) == Document(Meta, <<item>>)
    IN  {One([type |-> "heading", text |-> Title, level |-> n]) : n \in 1..3}
        \cup {One([type |-> "title", text |-> Title, level |-> n]) : n \in 1..2}
        \cup {One([type |-> "heading", text |-> Title]),
              Document(Meta, <<>>),
              Document(Meta,
                       <<[type |-> "title", text |-> Title, level |-> 1],
                         [type |-> "paragraph", text |-> <<"h", "i">>,
                          formatting |-> [bold |-> TRUE, italic |-> FALSE]],
                         [type |-> "list", metadata |-> [ordered |-> TRUE],
                          children |-> <<[type |-> "list_item", text |-> <<"a">>],
                                         [type |-> "list_item", text |-> <<"b">>]>>],
                         [type |-> "code", text |-> <<"x", "\n", "y">>]>>)}
        \cup ListDocuments
        \cup TableDocuments

\* MarkdownExportOptions a caller passes
ExportOptionChoices ==
    {<<>>, [headingStyle |-> "setext"], [includeMetadata |-> FALSE],
     [includeMetadata |-> FALSE, headingStyle |-> "setext"],
     [includeMetadata |-> FALSE, headingStyle |-> "atx", bulletChar |-> "*",
      codeBlockStyle |-> "indented", preserveFormatting |-> FALSE]}

InitExport ==
    /\ exportIn \in [document : ExportDocuments, options : ExportOptionChoices]
    /\ exporter = None
    /\ exported = <<>>
    /\ wrapper = None
    /\ sniffIn = None
    /\ sniffOut = None
    /\ allowedFormats = InputFormat
    /\ backends = ConstructedBackends
    /\ unzipperInstalled = TRUE
    /\ setCount = 0
    /\ stack = [c \in CallIds |-> <<>>]
    /\ result = [c \in CallIds |-> Idle]
    /\ tmpfs = [t \in TimeStamps |-> Missing]
    /\ now = 0
    /\ log = <<>>

\* new MarkdownExporter(options)
NewExporter ==
    /\ exporter = None
    /\ exporter' = [options |-> MarkdownOptions(exportIn.options)]
    /\ UNCHANGED <<allowedFormats, backends, unzipperInstalled, setCount, stack, result,
                   tmpfs, now, log, sniffIn, sniffOut, exportIn, exported, wrapper>>

\* (variant) parts is a field of the exporter, kept from one export to the next
ExportCall_keepsParts ==
    /\ exporter # None
    /\ Len(exported) < MaxExports
    /\ exported' = Append(exported,
                          Join(exported \o <<exportDocument(exportIn.document,
                                                           exporter.options)>>, NLNL))
    /\ UNCHANGED <<allowedFormats, backends, unzipperInstalled, setCount, stack, result,
                   tmpfs, now, log, sniffIn, sniffOut, exportIn, exporter, wrapper>>

\* exporter.export(document)
ExportCall ==
    /\ exporter # None
    /\ Len(exported) < MaxExports
    /\ exported' = Append(exported, exportDocument(exportIn.document, exporter.options))
    /\ UNCHANGED <<allowedFormats, backends, unzipperInstalled, setCount, stack, result,
                   tmpfs, now, log, sniffIn, sniffOut, exportIn, exporter, wrapper>>

\* MarkdownExporter.export(document, options)
ExportStatic ==
    /\ Len(exported) < MaxExports
    /\ exported' = Append(exported,
                          MarkdownExporter_export(exportIn.document, exportIn.options))
    /\ UNCHANGED <<allowedFormats, backends, unzipperInstalled, setCount, stack, result,
                   tmpfs, now, log, sniffIn, sniffOut, exportIn, exporter, wrapper>>

NextExport == NewExporter \/ ExportCall \/ ExportStatic

SpecExport == InitExport /\ [][NextExport]_vars

\* the options in force: the caller's, else the exporter's defaults
StyleOf(options) == IF Has(options, "headingStyle") THEN options.headingStyle ELSE "atx"

\* C13: a heading item and a title item with text t and level L render as '#' * L,
\* a space and t under atx; under setext as t, a newline and '=' * len(t) for L = 1,
\* t, a newline and '-' * len(t) for L = 2, and the atx form for L >= 3.
C13_HeadingAndTitle ==
    LET content == exportIn.document.content
        item    == content[1]
        t       == item.text
        atx     == Repeat("#", item.level) \o <<" ">> \o t
        setext(c) == t \o <<"\n">> \o Repeat(c, Len(t))
    IN  (/\ exported # <<>>
         /\ Len(content) = 1
         /\ item.type \in {"heading", "title"}
         /\ Has(item, "level")
         /\ Has(exportIn.options, "includeMetadata")
         /\ ~exportIn.options.includeMetadata)
            => \A i \in DOMAIN exported :
                   exported[i] = IF StyleOf(exportIn.options) = "atx" THEN atx
                                 ELSE IF item.level = 1 THEN setext("=")
                                 ELSE IF item.level = 2 THEN setext("-")
                                 ELSE atx

NonFatalProblem(c) ==
    /\ ReachedConvert(c)
    /\ ConvertedFormat(c) = "zip"
    /\ Happened(c, "open", 1)
    /\ result[c].status = "success"
    /\ \/ ArchiveOf(c).throws
       \/ \E k \in DOMAIN ArchiveOf(c).value : ArchiveOf(c).value[k].data.throws

\* C15: a conversion that meets a non-fatal problem returns status success and
\* reports the problem as an entry of the result's warnings list.
C15_WarningsCarried ==
    NonFatalProblem(1) =>
        /\ result[1].status = "success"
        /\ Has(result[1], "warnings")
        /\ result[1].warnings # <<>>

(***************************************************************************)
(* The convenience functions convertToMarkdown and convertToJSON: each     *)
(* constructs a converter, awaits its convert and derives what it returns. *)
(***************************************************************************)
Null == [null |-> TRUE]

\* JSON.stringify(value, null, indent): the text, kept as the value it spells and
\* the indentation it is written with
JSONText(value, indent) == [json |-> value, indent |-> indent]

WrapperNames == {"convertToMarkdown", "convertToJSON"}

\* sources for the backends that convert in one step; the second is blank text
WrapperSources ==
    {Buf(Content.TEXT), Buf(<<" ", "\n">>), Buf(Content.EMPTY), Buf(Content.HTML),
     Buf(Content.JSON), Buf(Content.PDF), Buf(Content.PDFBAD), Buf(Content.CSV),
     Path(Location.MISSING), Path(Location.PDF)}

WrapperFileNames == {<<>>, EntryName.TXT, EntryName.JSON}

\* convertToMarkdown(source, filename) or convertToJSON(source, filename, pretty) is
\* called: convertDocument constructs new MarkItDown()
WrapperCall ==
    /\ wrapper = None
    /\ \E name \in WrapperNames, source \in WrapperSources,
          filename \in WrapperFileNames, pretty \in BOOLEAN :
          /\ name = "convertToMarkdown" => pretty
          /\ wrapper' = [name |-> name, source |-> source, filename |-> filename,
                         pretty |-> pretty, returned |-> Pending]
    /\ allowedFormats' = InputFormat
    /\ backends' = ConstructedBackends
    /\ UNCHANGED <<unzipperInstalled, setCount, stack, result, tmpfs, now, log,
                   sniffIn, sniffOut, exportIn, exporter, exported>>

\* return converter.convert(source, filename)
WrapperConvert ==
    /\ wrapper # None
    /\ Call(1, wrapper.source, wrapper.filename)

\* what the function returns for the result convertDocument resolved to: an empty
\* string is falsy, an empty array is not
WrapperValue(name, pretty, res) ==
    IF name = "convertToMarkdown"
    THEN IF Has(res, "markdown_content") /\ res.markdown_content # <<>>
         THEN res.markdown_content
         ELSE Null
    ELSE IF Has(res, "json_content")
    THEN JSONText(res.json_content, IF pretty THEN 2 ELSE 0)
    ELSE Null

\* the await of convertDocument settles and the function returns
WrapperReturn ==
    /\ wrapper # None
    /\ wrapper.returned = Pending
    /\ Settled(1)
    /\ wrapper' = [wrapper EXCEPT !.returned = WrapperValue(wrapper.name, wrapper.pretty,
                                                           result[1])]
    /\ UNCHANGED <<allowedFormats, backends, unzipperInstalled, setCount, stack, result,
                   tmpfs, now, log, sniffIn, sniffOut, exportIn, exporter, exported>>

NextWrapper ==
    \/ WrapperCall
    \/ WrapperConvert
    \/ Detect(1)
    \/ IsValid(1)
    \/ Convert(1)
    \/ WrapperReturn

SpecWrapper == Init /\ [][NextWrapper]_vars

\* C16: convertToMarkdown returns null exactly when the conversion failed and the
\* result's markdown_content otherwise; convertToJSON returns null exactly when the
\* conversion failed and the JSON string of the content array otherwise; a success
\* with no content, or one that renders to the empty string, does not return null.
C16_NullOnlyOnFailure ==
    (wrapper # None /\ wrapper.returned # Pending) =>
        /\ wrapper.returned = Null <=> result[1].status = "failure"
        /\ result[1].status = "success" =>
               wrapper.returned =
                   IF wrapper.name = "convertToMarkdown" THEN result[1].markdown_content
                   ELSE JSONText(result[1].json_content, IF wrapper.pretty THEN 2 ELSE 0)

\* log[i] opens an invocation of convert at depth d of call c: the top-level call,
\* or the archive backend reaching an entry
IsOpener(i, c, d) ==
    /\ log[i].call = c
    /\ IF d = 1 THEN log[i].ev = "call"
       ELSE log[i].ev = "entry.buffer" /\ log[i].depth = d - 1

\* the position where the invocation that logged log[k] began
InvocationStart(k) ==
    CHOOSE i \in 1..k :
        /\ IsOpener(i, log[k].call, log[k].depth)
        /\ \A j \in (i + 1)..k : ~IsOpener(j, log[k].call, log[k].depth)

SameInvocation(j, k) ==
    /\ log[j].call = log[k].call
    /\ log[j].depth = log[k].depth
    /\ InvocationStart(j) = InvocationStart(k)

Steps == {"detect", "isValid", "convert"}

\* C17: within one invocation of convert, backend.convert is invoked only after the
\* sniffer returned a format, the format was found in allowedFormats, a backend was
\* found and its isValid returned true; isValid and convert are each invoked at most
\* once; and the result is serialized only after convert returned.
C17_StepOrder ==
    /\ \A k \in DOMAIN log :
          log[k].ev = "convert" =>
              /\ log[k].what \in allowedFormats
              /\ Lookup(backends, log[k].what) # NoBackend
              /\ \E i, j \in 1..(k - 1) :
                    /\ i < j
                    /\ log[i].ev = "detect" /\ log[i].what = log[k].what
                    /\ log[j].ev = "isValid" /\ log[j].what = log[k].what
                    /\ SameInvocation(i, k) /\ SameInvocation(j, k)
    /\ \A j, k \in DOMAIN log :
          (log[j].ev \in Steps /\ log[j].ev = log[k].ev /\ SameInvocation(j, k)) => j = k
    /\ \A c \in CallIds : \A n \in DOMAIN stack[c] :
          LET f == stack[c][n]
          IN  f.pc \notin {"detect", "isValid"} =>
                  /\ Return(f.format) = detectFormat(f.source, f.filename)
                  /\ f.format \in allowedFormats
                  /\ f.backend = Lookup(backends, f.format)
                  /\ Return(TRUE) \in isValid(f.backend, f.source)
    /\ \A c \in CallIds :
          result[c].status = "success" =>
              /\ stack[c] = <<>>
              /\ \E k \in DOMAIN log :
                    log[k].ev = "convert" /\ log[k].call = c /\ log[k].depth = 1

\* an archive inside an archive: convert was invoked at three depths
C17_Witness ==
    /\ result[1].status = "success"
    /\ \E k \in DOMAIN log : log[k].ev = "convert" /\ log[k].depth = 3
    /\ \E k \in DOMAIN log : log[k].ev = "nested" /\ log[k].what = "failure"

(***************************************************************************)
(* The archive backend's loop over the entries.                            *)
(***************************************************************************)
IsPrefix(a, b) == Len(a) <= Len(b) /\ SubSeq(b, 1, Len(a)) = a

\* the only invocation in flight under an archive is the one for its current entry
OneEntryAtATime ==
    \A c \in CallIds : \A n \in 1..(Len(stack[c]) - 1) :
        LET f     == stack[c][n]
            entry == f.files[f.idx]
        IN  /\ f.pc = "zipNested"
            /\ f.pending = None
            /\ entry.type = "File"
            /\ stack[c][n + 1].source = Buf(entry.data.value)
            /\ stack[c][n + 1].filename = entry.path

\* what a step does to the content of an archive frame that is in its loop
EntryStep(c, n) ==
    LET f     == stack[c][n]
        entry == f.files[f.idx]
        items == IF f.pending.status = "success" THEN f.pending.document.content
                 ELSE addRawFileContent(f.entryBuffer, Extname(entry.path))
    IN  IF n \in DOMAIN stack'[c]
        THEN LET g == stack'[c][n]
             IN  /\ IsPrefix(f.content, g.content)
                 /\ g.idx >= f.idx
                 /\ g.content # f.content => n = Len(stack[c])
                 /\ (f.pc = "zipEntry" /\ g # f) =>
                        /\ IsPrefix(f.content \o <<ZIP_heading(entry.path)>>, g.content)
                        /\ g.pc = "zipEntry" => g.idx > f.idx
                 /\ (f.pc = "zipNested" /\ g.content # f.content) =>
                        /\ f.content[Len(f.content)] = ZIP_heading(entry.path)
                        /\ g.content = f.content \o items
                        /\ g.idx > f.idx
        ELSE LET res == IF n = 1 THEN result'[c] ELSE stack'[c][n - 1].pending
             IN  /\ res.status = "success"
                 /\ res.document.content[1] = ZIP_title(ZipName(f))
                 /\ IsPrefix(f.content, res.document.content)
                 /\ f.pc = "zipNested" => res.document.content = f.content \o items

LiveSources ==
    {Buf(Nesting.OUTER), Buf(Nesting.MIDDLE), Buf(Content.ZIP2), Buf(Content.ZIPUNREAD),
     Buf(Content.ZIPBAD)}

StartLive ==
    \E source \in LiveSources, filename \in {<<>>, EntryName.ZIP} : Call(1, source, filename)

\* the steps the program takes by itself once convert has been called on an archive
Progress ==
    \/ Detect(1)
    \/ IsValid(1)
    \/ Convert(1)
    \/ ZipImport(1)
    \/ ZipOpen(1)
    \/ ZipEntry(1)
    \/ ZipNested(1)

\* the positions at which a frame waits for one of these steps
ProgressAt ==
    {"detect", "isValid", "convert", "zipImport", "zipOpen", "zipEntry", "zipNested"}

NextLive == StartLive \/ Progress

\* a call is in flight: some await of it is pending
Running == stack[1] # <<>>

\* Every pending await settles and the event loop runs its continuation: weak
\* fairness of Progress.  Each step of Progress is guarded by the position of the top
\* frame alone, so Progress is enabled exactly when a call is in flight, and
\* WF_vars(Progress) is written with that enabling condition spelled out.
Scheduling == ([]<>~Running) \/ ([]<><<Progress>>_vars)

SpecLive == Init /\ [][NextLive]_vars /\ Scheduling

\* the flat content of an archive converted by a freshly constructed converter with
\* every format allowed: the title, then for each File entry its heading and the
\* entry's items, an archive entry's items being its own flat content
RECURSIVE FlatEntries(_, _)
FlatEntries(files, i) ==
    IF i > Len(files) THEN <<>>
    ELSE IF files[i].type # "File" THEN FlatEntries(files, i + 1)
    ELSE IF files[i].data.throws THEN <<ZIP_openError(files[i].data.msg)>>
    ELSE LET e      == files[i]
             source == Buf(e.data.value)
             inner  == UnzipOpen(e.data.value)
             alone  == RunAlone(source, e.path)
         IN  <<ZIP_heading(e.path)>>
             \o (IF detectFormat(source, e.path).value = "zip" /\ ZIPBackend_isValid(source)
                 THEN <<ZIP_title(e.path)>>
                      \o (IF inner.throws THEN <<ZIP_openError(inner.msg)>>
                          ELSE FlatEntries(inner.value, 1))
                 ELSE IF alone.status = "success" THEN alone.document.content
                 ELSE addRawFileContent(e.data.value, Extname(e.path)))
             \o FlatEntries(files, i + 1)

FlatArchive(buffer, filename) ==
    <<ZIP_title(NameOr(filename, "archive.zip"))>>
    \o (IF UnzipOpen(buffer).throws THEN <<ZIP_openError(UnzipOpen(buffer).msg)>>
        ELSE FlatEntries(UnzipOpen(buffer).value, 1))

\* the archive titles among the items of a content sequence
ArchiveTitles(content) ==
    {j \in DOMAIN content :
        /\ content[j].type = "title"
        /\ StartsWith(content[j].text, <<"ZIP Archive: ">>)}

\* the nested invocations of call c that reached the archive backend
NestedArchiveRuns(c) ==
    {i \in DOMAIN log : log[i].ev = "import" /\ log[i].call = c /\ log[i].depth > 1}

\* the top-level call is converting its source with the constructed archive backend
ExpandingArchive ==
    /\ Happened(1, "import", 1)
    /\ unzipperInstalled
    /\ backends["zip"] = ConstructedBackends["zip"]

\* C21: an archive with archives nested in it is expanded by re-entering the
\* dispatcher once per nested archive, at every level; each nested archive contributes
\* its own title and all items end up in the one flat content sequence of the top-level
\* document; the top-level convert terminates, and with status success.
C21_NestedArchives ==
    /\ [](Running => Top(1).pc \in ProgressAt)
    /\ []((ExpandingArchive /\ Settled(1)) =>
            /\ result[1].status = "success"
            /\ Cardinality(ArchiveTitles(result[1].document.content))
                  = 1 + Cardinality(NestedArchiveRuns(1))
            /\ \A j \in DOMAIN result[1].document.content :
                  "children" \notin DOMAIN result[1].document.content[j]
                  \/ result[1].document.content[j].type # "section"
            /\ allowedFormats = InputFormat =>
                  result[1].document.content
                    = FlatArchive(BufferOf(SourceOf(1)).value, FilenameOf(1)))
    /\ (ExpandingArchive ~> (result[1].status = "success"))

\* an archive holding an archive that holds an empty archive, and a file after it
C21_Witness ==
    /\ result[1].status = "success"
    /\ Happened(1, "import", 3)
    /\ SourceOf(1) = Buf(Nesting.OUTER)
    /\ FilenameOf(1) = <<>>
    /\ allowedFormats = InputFormat
    /\ result[1].document.content =
          <<ZIP_title(<<"archive.zip">>),
            ZIP_heading(EntryName.ZIP), ZIP_title(EntryName.ZIP),
            ZIP_heading(EntryName.ZIP), ZIP_title(EntryName.ZIP),
            ZIP_heading(EntryName.BIN), BinaryNote(<<"x89", "xFF">>)>>

(***************************************************************************)
(* The metadata of the converted document.                                 *)
(***************************************************************************)
\* C22: the document of every successful convert has metadata.filename and
\* metadata.format, and metadata.format is the format detection selected for the call
\* (the key under which the backend that converted it is registered).
C22_FormatIsDetected ==
    (result[1].status = "success" /\ setCount = 0) =>
        /\ "filename" \in DOMAIN result[1].document.metadata
        /\ "format" \in DOMAIN result[1].document.metadata
        /\ result[1].document.metadata.format
             = detectFormat(SourceOf(1), FilenameOf(1)).value

(***************************************************************************)
(* Detection by content against the backends' own validity tests.          *)
(***************************************************************************)
\* C23: a buffer given without a filename whose format is found from its content
\* passes isValid of the backend constructed for that format: convert never answers
\* "Invalid X document" for a format X chosen by the content signatures.
C23_SniffedIsValid ==
    \A c \in CallIds :
        (/\ Settled(c)
         /\ setCount = 0
         /\ SourceOf(c).kind = "buffer"
         /\ FilenameOf(c) = <<>>) =>
            LET format == detectFormatFromContent(SourceOf(c)).value
            IN  /\ format # NoFormat =>
                      isValid(ConstructedBackends[format], SourceOf(c)) = {Return(TRUE)}
                /\ result[c] # Failure(InvalidDocument(format))

(***************************************************************************)
(* The allow-list inside archives.                                         *)
(***************************************************************************)
\* items appear in content as one contiguous run directly after the item at j
FollowedBy(content, j, items) ==
    /\ j + Len(items) <= Len(content)
    /\ SubSeq(content, j + 1, j + Len(items)) = items

\* entry k of the archive of call c is a file that the loop reaches and reads
EntryReached(c, k) ==
    /\ ArchiveOf(c).value[k].type = "File"
    /\ \A j \in 1..k : ~ArchiveOf(c).value[j].data.throws

\* C24: the allow-list holds at every nesting level: no isValid and no convert of a
\* backend is invoked for a format outside allowedFormats, the nested calls made for
\* archive entries included; an entry of a format that is not allowed is shown as
\* placeholder content under its heading, and the archive conversion succeeds.
C24_AllowListAtEveryLevel ==
    /\ \A i \in DOMAIN log :
          log[i].ev \in {"isValid", "convert"} => log[i].what \in allowedFormats
    /\ \A c \in CallIds : \A n \in DOMAIN stack[c] :
          stack[c][n].pc # "detect" => stack[c][n].format \in allowedFormats
    /\ (Settled(1) /\ ExpandingArchive /\ ~ArchiveOf(1).throws) =>
          /\ result[1].status = "success"
          /\ \A k \in DOMAIN ArchiveOf(1).value :
                LET entry == ArchiveOf(1).value[k]
                IN  (/\ EntryReached(1, k)
                     /\ detectFormat(Buf(entry.data.value), entry.path).value
                          \notin allowedFormats \cup {NoFormat}) =>
                        \E j \in DOMAIN result[1].document.content :
                            /\ result[1].document.content[j] = ZIP_heading(entry.path)
                            /\ FollowedBy(result[1].document.content, j,
                                          addRawFileContent(entry.data.value,
                                                            Extname(entry.path)))

\* an archive with a PDF and a CSV entry, converted with neither format allowed
C24_Witness ==
    /\ result[1].status = "success"
    /\ Happened(1, "nested", 1)
    /\ SourceOf(1) = Buf(Content.ZIPDIR)
    /\ "csv" \notin allowedFormats
    /\ "pdf" \notin allowedFormats
    /\ \E i \in DOMAIN log : log[i].ev = "detect" /\ log[i].depth = 2 /\ log[i].what = "csv"
    /\ result[1].document.content[3] = BinaryNote(Content.PDFBAD)
    /\ result[1].document.content[4] = ZIP_heading(EntryName.CSV)
    /\ result[1].document.content[5].type = "code"

(***************************************************************************)
(* setBackend called while a convert is suspended at an await.             *)
(***************************************************************************)
OverrideSources ==
    {Buf(Content.TEXT), Buf(Content.JSON), Buf(Content.HTML), Buf(Content.ZIP2),
     Buf(Content.PPTX1), Buf(Content.EMPTY)}

StartOverride ==
    \E source \in OverrideSources, filename \in {<<>>, EntryName.TXT} :
        Call(1, source, filename)

\* setBackend(format, backend), at any moment
Override == \E choice \in SetBackendChoices : SetBackend(choice[1], choice[2])

NextOverride ==
    \/ Override
    \/ StartOverride
    \/ Detect(1)
    \/ IsValid(1)
    \/ Convert(1)
    \/ PptxWrite(1)
    \/ PptxParse(1)
    \/ PptxUnlink(1)
    \/ ZipImport(1)
    \/ ZipOpen(1)
    \/ ZipEntry(1)
    \/ ZipNested(1)

SpecOverride == Init /\ [][NextOverride]_vars

\* the result an invocation hands over when its frame ends in this step
Handed(c) ==
    IF Len(stack[c]) = 1 THEN result'[c] ELSE stack'[c][Len(stack[c]) - 1].pending

\* what a step does with the backend an invocation holds
SameBackend(c, n) ==
    LET f == stack[c][n]
    IN  IF n \in DOMAIN stack'[c]
        THEN LET g == stack'[c][n]
             IN  /\ f.pc # "detect" => (g.backend = f.backend /\ g.format = f.format)
                 /\ (f.pc = "detect" /\ g.pc # "detect") =>
                        g.backend = Lookup(backends, g.format)
                 /\ (f.pc = "isValid" /\ g.pc # "isValid") =>
                        Return(TRUE) \in isValid(f.backend, f.source)
        ELSE /\ f.pc = "isValid" =>
                   \E o \in isValid(f.backend, f.source) :
                       Handed(c) = IF o.throws THEN Catch(o.msg)
                                   ELSE Failure(InvalidDocument(f.format))
             /\ f.pc = "convert" =>
                   \E o \in convert(f.backend, f.source, f.filename) :
                       Handed(c) = Finish(o)

\* C25: one convert invocation uses one backend instance, the one registered for
\* the detected format when it was looked up, for isValid and for convert, whatever
\* setBackend does while the invocation is suspended; setBackend replaces the one
\* registry entry it names and leaves allowedFormats alone, and no step of convert
\* changes the registry or allowedFormats.
C25_OneBackendPerInvocation ==
    [][/\ \A c \in CallIds : \A n \in DOMAIN stack[c] : SameBackend(c, n)
       /\ allowedFormats' = allowedFormats
       /\ backends' # backends =>
             /\ stack' = stack /\ result' = result /\ log' = log
             /\ DOMAIN backends' = DOMAIN backends
             /\ Cardinality({k \in DOMAIN backends : backends'[k] # backends[k]}) = 1]_vars

\* setBackend has replaced the text backend while a conversion of text is suspended:
\* isValid has passed and convert has been called on the instance looked up before
C25_Witness ==
    /\ At(1, "convert")
    /\ Happened(1, "convert", 1)
    /\ Top(1).format = "text"
    /\ Top(1).backend = ConstructedBackends["text"]
    /\ backends["text"].class = "CustomBackend"
    /\ setCount = 1

(***************************************************************************)
(* Images, from the element to the Markdown.                               *)
(***************************************************************************)
\* the elements the HTML or DOCX backend walks for the source of call c
ElementsOf(c) ==
    IF ConvertedFormat(c) = "html" THEN JSDOM(ConvertedBytes(c))
    ELSE IF ConvertedFormat(c) = "docx" /\ ~Mammoth(ConvertedBytes(c)).throws
    THEN Mammoth(ConvertedBytes(c)).value
    ELSE <<>>

ImageMarkdown(alt, src) == <<"!", "[">> \o alt \o <<"]", "(">> \o src \o <<")">>

\* C26: an image element with source S and alternative text A, converted by the
\* HTML backend or the DOCX backend, is serialized as ![A](S).
C26_ImageRendered ==
    (result[1].status = "success" /\ setCount = 0) =>
        \A k \in DOMAIN ElementsOf(1) :
            ElementsOf(1)[k].tag = "img" =>
                Includes(result[1].markdown_content,
                         ImageMarkdown(ElementsOf(1)[k].alt, ElementsOf(1)[k].src))

\* the DOCX backend alone does render them so
DocxImagesRendered ==
    (result[1].status = "success" /\ setCount = 0 /\ ConvertedFormat(1) = "docx") =>
        \A k \in DOMAIN ElementsOf(1) :
            ElementsOf(1)[k].tag = "img" =>
                Includes(result[1].markdown_content,
                         ImageMarkdown(ElementsOf(1)[k].alt, ElementsOf(1)[k].src))

(***************************************************************************)
(* Lists in Markdown.                                                      *)
(***************************************************************************)
\* the lines of lists and sections at nesting level n: per list item 2n spaces, the
\* bullet or the item's number in its list, a space and the text, then the lines of
\* the item's children at level n + 1; a section's children at the section's level
RECURSIVE ListLines(_, _, _)
ListLines(items, n, bullet) ==
    LET ItemLine(list, index) ==
            Repeat(" ", 2 * n)
            \o (IF Has(list, "metadata") /\ list.metadata.ordered
                THEN NumStr(index) \o <<".">> ELSE <<bullet>>)
            \o <<" ">> \o list.children[index].text
        Below(item) ==
            IF Has(item, "children") THEN ListLines(item.children, n + 1, bullet) ELSE <<>>
        OfList(list) ==
            Concat([index \in 1..Len(list.children) |->
                       <<ItemLine(list, index)>> \o Below(list.children[index])])
        OfItem(item) ==
            IF item.type = "list" THEN OfList(item)
            ELSE ListLines(item.children, n, bullet)
    IN  Concat([i \in 1..Len(items) |-> OfItem(items[i])])

\* the document being exported consists of lists and sections
ListsOnly ==
    \A i \in DOMAIN exportIn.document.content :
        exportIn.document.content[i].type \in {"list", "section"}

\* the bullet character in force
BulletOf(options) == MarkdownOptions(options).bulletChar

\* C27: a list item of a list at nesting level n is one line: 2n spaces, then
\* bulletChar, or for an ordered list the item's number counted from 1 in its own
\* list and a dot, then a space and the text; a list item's children are rendered at
\* level n + 1, and a section renders its children at its own level.
C27_ListLines ==
    ListsOnly =>
        \A k \in DOMAIN exported :
            SelectSeq(Split(exported[k], "\n"), LAMBDA line : line # <<>>)
              = (IF MarkdownOptions(exportIn.options).includeMetadata
                 THEN Split(exportMetadata(exportIn.document.metadata), "\n") ELSE <<>>)
                \o ListLines(exportIn.document.content, 0, BulletOf(exportIn.options))

\* lists three levels deep exported with '*' as the bullet: the unordered outer
\* list, the numbered list in its second item, the list in that list's second item
C27_Witness ==
    /\ Len(exported) > 0
    /\ ListsOnly
    /\ BulletOf(exportIn.options) = "*"
    /\ LET lines == Split(exported[1], "\n")
       IN  /\ Len(lines) = 6
           /\ lines[2] = <<"*", " ", "b">>
           /\ lines[4] = <<" ", " ", "2", ".", " ", "y">>
           /\ lines[5] = <<" ", " ", " ", " ", "*", " ", "z">>

(***************************************************************************)
(* Tables in Markdown.                                                     *)
(***************************************************************************)
\* the document being exported is one table
OneTable ==
    /\ Len(exportIn.document.content) = 1
    /\ exportIn.document.content[1].type = "table"

\* the rows of that table (item.rows || [])
RowsOf(item) == IF Has(item, "rows") THEN item.rows ELSE <<>>

\* '| ' + the texts joined with ' | ' + ' |'
TableLine(texts) == <<"|", " ">> \o Join(texts, <<" ", "|", " ">>) \o <<" ", "|">>

\* the lines of a table of at least one row
TableLines(rows) ==
    <<TableLine([j \in 1..Len(rows[1]) |-> rows[1][j].text]),
      TableLine([j \in 1..Len(rows[1]) |-> <<"-", "-", "-">>])>>
    \o [i \in 1..(Len(rows) - 1) |->
           TableLine([j \in 1..Len(rows[i + 1]) |-> rows[i + 1][j].text])]

\* what precedes the content in the output: the front matter and a blank line
FrontMatter ==
    IF MarkdownOptions(exportIn.options).includeMetadata
    THEN exportMetadata(exportIn.document.metadata) ELSE <<>>

\* C28: a table of at least one row is serialized as its row 0, a separator line
\* with one '---' per cell of row 0, and its rows 1..n-1 in order, one line each,
\* whatever the isHeader flags of the cells; a table without rows is the empty string.
C28_TableLines ==
    OneTable =>
        \A k \in DOMAIN exported :
            LET rows == RowsOf(exportIn.document.content[1])
            IN  IF rows = <<>> THEN exported[k] = FrontMatter
                ELSE exported[k]
                       = Join(SelectSeq(<<FrontMatter, Join(TableLines(rows), NL)>>,
                                        LAMBDA part : part # <<>>), NLNL)

\* the table whose first row holds data cells and whose second row holds header
\* cells, exported without front matter
C28_Witness ==
    /\ Len(exported) > 0
    /\ OneTable
    /\ FrontMatter = <<>>
    /\ Len(RowsOf(exportIn.document.content[1])) = 2
    /\ ~exportIn.document.content[1].rows[1][1].isHeader
    /\ exportIn.document.content[1].rows[2][1].isHeader
    /\ Split(exported[1], "\n")
         = <<<<"|", " ", "a", " ", "|", " ", "b", " ", "|">>,
             <<"|", " ", "-", "-", "-", " ", "|", " ", "-", "-", "-", " ", "|">>,
             <<"|", " ", "1", " ", "|", " ", "2", " ", "|">>>>

(***************************************************************************)
(* Which backends the sniffer can select.                                  *)
(***************************************************************************)
\* what detection returns over the names and sources handed to the sniffer
Selectable ==
    {detectFormat(source, filename) : source \in SniffSources, filename \in SniffNames}

\* C29: every format that has a backend after construction is returned by detection
\* for some source and filename, so that convert reaches the backend without
\* setBackend.
C29_EveryBackendSelectable ==
    setCount = 0 => \A format \in DOMAIN backends : Return(format) \in Selectable

\* the formats of the constructor's map that detection does return
AllButYouTube ==
    setCount = 0 => \A format \in DOMAIN backends \ {"youtube"} : Return(format) \in Selectable

\* the sniffer never answers youtube, a watch page is sniffed as HTML, and a run
\* that never called setBackend hands nothing to the YouTube backend
YouTubeNeverDetected ==
    /\ sniffOut # None => sniffOut # Return("youtube")
    /\ (sniffOut # None /\ sniffIn.source = Buf(Sample.WATCH) /\ sniffIn.filename = <<>>)
          => sniffOut = Return("html")
    /\ YouTubeBackend_isValid(Buf(Sample.WATCH))
    /\ setCount = 0 =>
          \A i \in DOMAIN log :
              log[i].ev \in {"detect", "isValid", "convert"} => log[i].what # "youtube"

(***************************************************************************)
(* The temporary file of PPTXBackend.convert.                              *)
(***************************************************************************)
\* a convert of the presentation backend that is still running wrote /tmp/temp-t.pptx
\* and has not yet unlinked it
TempFileHeld(t) ==
    \E c \in CallIds : \E n \in DOMAIN stack[c] :
        /\ stack[c][n].pc \in {"pptxParse", "pptxUnlink"}
        /\ stack[c][n].needsCleanup
        /\ stack[c][n].filePath = [kind |-> "tmp", name |-> t]

\* the frames of the calls that are running
Frames ==
    UNION {{stack[c][n] : n \in DOMAIN stack[c]} : c \in CallIds}

====
